---- MODULE Spec2Model ----
(***************************************************************************)
(* Security monitoring Lambda of cloudsecdemo (monitoring/lambda/index.js) *)
(* as a state machine: one handler invocation that fetches the tagged      *)
(* resources, runs the per-resource security checks, publishes the         *)
(* failure metric and sends alerts.                                        *)
(*                                                                         *)
(* AWS API responses are inputs: each call's outcome (a response or a      *)
(* rejection) is drawn when the code makes the call.  The fields of a      *)
(* security group are drawn when checkSecurityGroup reads them; the group  *)
(* object is never written between the fetch and that read.                *)
(***************************************************************************)
EXTENDS Integers, Sequences, FiniteSets, TLC

\* ------------------------------------------------------------------ bounds
MaxBatch    == 2   \* resources in one fetched batch, all kinds together
MaxPerms    == 2   \* ingress permissions of a security group
MaxPolicies == 2   \* inline policies of a role
MaxLogging  == 1   \* clusterLogging entries of a cluster

\* ------------------------------------------------------------- JS values
\* A property that may be missing from an API response.
Undefined == [defined |-> FALSE, value |-> <<>>]
Def(v)    == [defined |-> TRUE, value |-> v]

SeqsUpTo(S, n) == UNION {[1..k -> S] : k \in 0..n}

STATUS == [PASS |-> "PASS", FAIL |-> "FAIL", ERROR |-> "ERROR"]

ENVIRONMENT == "demo"

OpenCidr == "0.0.0.0/0"
PrivateCidr == "10.0.0.0/8"

Timestamps == {"t1", "t2"}

\* Characters of the strings that JSON.stringify and String.includes work on.
Chars(s) ==
  CASE s = "*"            -> <<"*">>
    [] s = "Allow"        -> <<"A", "l", "l", "o", "w">>
    [] s = "Effect"       -> <<"E", "f", "f", "e", "c", "t">>
    [] s = "Action"       -> <<"A", "c", "t", "i", "o", "n">>
    [] s = "Resource"     -> <<"R", "e", "s", "o", "u", "r", "c", "e">>
    [] s = "Statement"    -> <<"S", "t", "a", "t", "e", "m", "e", "n", "t">>
    [] s = "s3:GetObject" -> <<"s", "3", ":", "G", "e", "t", "O", "b", "j", "e", "c", "t">>

Quote == <<"\"">>

\* ------------------------------------------------------- input domains
\* One ingress permission: IpRanges is a list of {CidrIp}, or missing.
IpRangeLists ==
  {<<>>, <<[CidrIp |-> OpenCidr]>>, <<[CidrIp |-> PrivateCidr]>>,
   <<[CidrIp |-> PrivateCidr], [CidrIp |-> OpenCidr]>>}
Permissions  == {[IpRanges |-> Undefined]} \cup {[IpRanges |-> Def(r)] : r \in IpRangeLists}

\* One security group: IpPermissions is a list of permissions, or missing.
SecurityGroups(id) ==
  {[GroupId |-> id, IpPermissions |-> Undefined]}
    \cup {[GroupId |-> id, IpPermissions |-> Def(p)] : p \in SeqsUpTo(Permissions, MaxPerms)}

\* s3.getBucketPublicAccessBlock: rejects, or a response whose
\* PublicAccessBlockConfiguration is missing or carries BlockPublicAcls.
PublicAccessResponses ==
  {[rejects |-> TRUE, PublicAccessBlockConfiguration |-> Undefined],
   [rejects |-> FALSE, PublicAccessBlockConfiguration |-> Undefined]}
    \cup {[rejects |-> FALSE, PublicAccessBlockConfiguration |-> Def([BlockPublicAcls |-> b])] :
            b \in BOOLEAN}

\* s3.getBucketEncryption: rejects, or a response with or without a
\* ServerSideEncryptionConfiguration.
EncryptionResponses ==
  {[rejects |-> TRUE, ServerSideEncryptionConfiguration |-> Undefined],
   [rejects |-> FALSE, ServerSideEncryptionConfiguration |-> Undefined],
   [rejects |-> FALSE, ServerSideEncryptionConfiguration |-> Def(<<"AES256">>)]}

Buckets(id) ==
  {[Name |-> id, publicAccess |-> pa, encryption |-> e] :
     pa \in PublicAccessResponses, e \in EncryptionResponses}

\* An Action of a policy statement: one string, or a list of strings.
ActionValues ==
  {[isArray |-> FALSE, items |-> <<"*">>],
   [isArray |-> TRUE,  items |-> <<"s3:GetObject">>],
   [isArray |-> TRUE,  items |-> <<"*">>]}

PolicyDocuments ==
  {[Statement |-> <<[Effect |-> "Allow", Action |-> a, Resource |-> "*"]>>] : a \in ActionValues}

\* iam.getRolePolicy: rejects, or a response with a PolicyDocument.
RolePolicyResponses ==
  {[rejects |-> TRUE, PolicyDocument |-> [Statement |-> <<>>]]}
    \cup {[rejects |-> FALSE, PolicyDocument |-> d] : d \in PolicyDocuments}

PolicyNameOf(i) == "p" \o ToString(i)

\* iam.listRolePolicies rejects, or names the inline policies p1..pn; each
\* name has its getRolePolicy response.
Roles(id) ==
  {[RoleName |-> id, listRejects |-> TRUE, policies |-> <<>>]}
    \cup {[RoleName |-> id, listRejects |-> FALSE, policies |-> p] :
            p \in SeqsUpTo(RolePolicyResponses, MaxPolicies)}

\* eks.describeCluster: rejects, or a response {cluster: {...}}.
VpcConfigs == {Undefined} \cup {Def([endpointPrivateAccess |-> b]) : b \in BOOLEAN}
LoggingValues ==
  {Undefined} \cup {Def([clusterLogging |-> l]) : l \in SeqsUpTo([enabled : BOOLEAN], MaxLogging)}

Clusters(id) ==
  {[name |-> id, rejects |-> TRUE, resourcesVpcConfig |-> Undefined,
    encryptionConfig |-> Undefined, logging |-> Undefined]}
    \cup {[name |-> id, rejects |-> FALSE, resourcesVpcConfig |-> v,
           encryptionConfig |-> e, logging |-> l] :
            v \in VpcConfigs, e \in {Undefined, Def(<<"secrets">>)}, l \in LoggingValues}

\* ------------------------------------------------------- JSON.stringify
StringifyString(s) == Quote \o Chars(s) \o Quote

RECURSIVE JoinStrings(_)
JoinStrings(items) ==
  IF items = <<>> THEN <<>>
  ELSE IF Len(items) = 1 THEN StringifyString(items[1])
  ELSE StringifyString(items[1]) \o <<",">> \o JoinStrings(Tail(items))

StringifyAction(a) ==
  IF a.isArray THEN <<"[">> \o JoinStrings(a.items) \o <<"]">>
  ELSE StringifyString(a.items[1])

\* No indent argument: no whitespace between tokens.
StringifyStatement(st) ==
  <<"{">> \o StringifyString("Effect") \o <<":">> \o StringifyString(st.Effect)
    \o <<",">> \o StringifyString("Action") \o <<":">> \o StringifyAction(st.Action)
    \o <<",">> \o StringifyString("Resource") \o <<":">> \o StringifyString(st.Resource)
    \o <<"}">>

RECURSIVE JoinStatements(_)
JoinStatements(sts) ==
  IF sts = <<>> THEN <<>>
  ELSE IF Len(sts) = 1 THEN StringifyStatement(sts[1])
  ELSE StringifyStatement(sts[1]) \o <<",">> \o JoinStatements(Tail(sts))

JSONStringify(doc) ==
  <<"{">> \o StringifyString("Statement") \o <<":", "[">>
    \o JoinStatements(doc.Statement) \o <<"]", "}">>

\* String.prototype.includes
Includes(hay, needle) ==
  \E i \in 1..(Len(hay) - Len(needle) + 1) :
    SubSeq(hay, i, i + Len(needle) - 1) = needle

\* The literal searched for by checkIAMRole: "Action": "*"
WildcardNeedle ==
  Quote \o Chars("Action") \o Quote \o <<":", " ">> \o Quote \o Chars("*") \o Quote

\* ------------------------------------------------------------ the checks
Verdict(n, s, d) == [name |-> n, status |-> s, details |-> d]

\* Array.some over the permissions, left to right: "true" at the first
\* permission with an open range, "throw" at a permission whose IpRanges is
\* missing (TypeError), "false" at the end.
RECURSIVE SomeOpenRange(_)
SomeOpenRange(perms) ==
  IF perms = <<>> THEN "false"
  ELSE IF ~Head(perms).IpRanges.defined THEN "throw"
  ELSE IF \E i \in DOMAIN Head(perms).IpRanges.value :
            Head(perms).IpRanges.value[i].CidrIp = OpenCidr THEN "true"
  ELSE SomeOpenRange(Tail(perms))

hasOpenPorts(sg) ==
  IF ~sg.IpPermissions.defined THEN "throw" ELSE SomeOpenRange(sg.IpPermissions.value)

OpenPortsVerdict(open) ==
  Verdict("open-ports",
          IF open = "true" THEN STATUS.FAIL ELSE STATUS.PASS,
          IF open = "true" THEN "Security group has ports open to 0.0.0.0/0" ELSE "null")

\* No try/catch: a TypeError leaves the function.
checkSecurityGroup(sg) ==
  [throws |-> hasOpenPorts(sg) = "throw",
   check  |-> [resourceType |-> "SecurityGroup", resourceId |-> sg.GroupId,
               checks |-> <<OpenPortsVerdict(hasOpenPorts(sg))>>]]

PublicAccessVerdict(pa) ==
  Verdict("public-access",
          IF pa.PublicAccessBlockConfiguration.value.BlockPublicAcls
            THEN STATUS.PASS ELSE STATUS.FAIL,
          "Public access block configuration")

BucketEncryptionVerdict(enc) ==
  Verdict("encryption",
          IF enc.ServerSideEncryptionConfiguration.defined THEN STATUS.PASS ELSE STATUS.FAIL,
          "Default encryption configuration")

BucketChecks(bucket) ==
  IF bucket.publicAccess.rejects
       \/ ~bucket.publicAccess.PublicAccessBlockConfiguration.defined
    THEN <<Verdict("bucket-check", STATUS.ERROR, "error.message")>>
  ELSE IF bucket.encryption.rejects
    THEN <<PublicAccessVerdict(bucket.publicAccess),
           Verdict("bucket-check", STATUS.ERROR, "error.message")>>
  ELSE <<PublicAccessVerdict(bucket.publicAccess),
         BucketEncryptionVerdict(bucket.encryption)>>

checkS3Bucket(bucket) ==
  [throws |-> FALSE,
   check  |-> [resourceType |-> "S3Bucket", resourceId |-> bucket.Name,
               checks |-> BucketChecks(bucket)]]

hasWildcardPermissions(policy) ==
  Includes(JSONStringify(policy.PolicyDocument), WildcardNeedle)

PolicyVerdict(policyName, policy) ==
  Verdict("policy-" \o policyName,
          IF hasWildcardPermissions(policy) THEN STATUS.FAIL ELSE STATUS.PASS,
          IF hasWildcardPermissions(policy)
            THEN "Policy contains wildcard permissions" ELSE "null")

\* The loop over policies.PolicyNames from the i-th name on; a rejected
\* getRolePolicy ends the loop in the catch block.
RECURSIVE PolicyLoop(_, _)
PolicyLoop(policies, i) ==
  IF i > Len(policies) THEN <<>>
  ELSE IF policies[i].rejects
    THEN <<Verdict("role-check", STATUS.ERROR, "error.message")>>
  ELSE <<PolicyVerdict(PolicyNameOf(i), policies[i])>> \o PolicyLoop(policies, i + 1)

RoleChecks(role) ==
  IF role.listRejects THEN <<Verdict("role-check", STATUS.ERROR, "error.message")>>
  ELSE PolicyLoop(role.policies, 1)

checkIAMRole(role) ==
  [throws |-> FALSE,
   check  |-> [resourceType |-> "IAMRole", resourceId |-> role.RoleName,
               checks |-> RoleChecks(role)]]

PrivateEndpointVerdict(cluster) ==
  Verdict("private-endpoint",
          IF cluster.resourcesVpcConfig.value.endpointPrivateAccess
            THEN STATUS.PASS ELSE STATUS.FAIL,
          "Private endpoint access configuration")

ClusterEncryptionVerdictInverted(cluster) ==
  Verdict("encryption",
          IF cluster.encryptionConfig.defined THEN STATUS.FAIL ELSE STATUS.PASS,
          "Encryption configuration")

ClusterEncryptionVerdict(cluster) ==
  Verdict("encryption",
          IF cluster.encryptionConfig.defined THEN STATUS.PASS ELSE STATUS.FAIL,
          "Encryption configuration")

LoggingVerdict(cluster) ==
  Verdict("logging",
          IF \E i \in DOMAIN cluster.logging.value.clusterLogging :
               cluster.logging.value.clusterLogging[i].enabled
            THEN STATUS.PASS ELSE STATUS.FAIL,
          "Control plane logging configuration")

ClusterChecks(cluster) ==
  IF cluster.rejects \/ ~cluster.resourcesVpcConfig.defined
    THEN <<Verdict("cluster-check", STATUS.ERROR, "error.message")>>
  ELSE IF ~cluster.logging.defined
    THEN <<PrivateEndpointVerdict(cluster), ClusterEncryptionVerdict(cluster),
           Verdict("cluster-check", STATUS.ERROR, "error.message")>>
  ELSE <<PrivateEndpointVerdict(cluster), ClusterEncryptionVerdict(cluster),
         LoggingVerdict(cluster)>>

checkEKSCluster(cluster) ==
  [throws |-> FALSE,
   check  |-> [resourceType |-> "EKSCluster", resourceId |-> cluster.name,
               checks |-> ClusterChecks(cluster)]]

\* ------------------------------------------------------ processResults
StatusCountNotPass(checks, status) ==
  Cardinality({i \in DOMAIN checks : checks[i].status /= STATUS.PASS})

StatusCount(checks, status) ==
  Cardinality({i \in DOMAIN checks : checks[i].status = status})

RECURSIVE CountFailures(_)
CountFailures(checks) ==
  IF checks = <<>> THEN 0
  ELSE StatusCount(Head(checks).checks, STATUS.FAIL) + CountFailures(Tail(checks))

\* --------------------------------------------------------------- state
VARIABLES
  pc,         \* position of the handler invocation
  resources,  \* the batch returned by getTaggedResources
  results,    \* the report built by runSecurityChecks
  cur,        \* the resource, with its API responses, of the latest check call
              \* of the running runSecurityChecks
  failures,   \* processResults' failure count
  metrics,    \* data points accepted by cloudwatch.putMetricData
  sns,        \* sns.publish calls made by sendAlert, with their outcome
  error,      \* the error caught by the handler
  outcome     \* what the handler's promise settled to

\* The handler invocation's variables.
handlerVars == <<pc, resources, results, cur, failures, metrics, sns, error, outcome>>

\* The run of one of the project's shell scripts (scripts/*.sh).
VARIABLES
  argv,       \* the command line the script was started with
  shpc,       \* position of the script
  shell,      \* the script's shell variables and its exit status
  child,      \* the script started by the running script, if any
  ran,        \* the steps run so far, in order
  cloud       \* the project's files and cloud resources

shellVars == <<argv, shpc, shell, child, ran, cloud>>

\* Two handler invocations in one Lambda execution environment.
VARIABLES
  inv,        \* the locals of each invocation and the responses it was given
  reports     \* the results objects created by runSecurityChecks

pairVars == <<inv, reports>>

vars == <<pc, resources, results, cur, failures, metrics, sns, error, outcome,
          argv, shpc, shell, child, ran, cloud, inv, reports>>

NoResources == [securityGroups |-> <<>>, s3Buckets |-> <<>>, iamRoles |-> <<>>,
                eksClusters |-> <<>>]
NoResults   == [timestamp |-> "", environment |-> "", checks |-> <<>>]
NoCall      == [resourceType |-> "none"]
Pending     == [state |-> "pending", statusCode |-> 0, body |-> NoResults, error |-> ""]

\* No handler invocation has started.
HandlerIdle ==
  /\ pc = "start"
  /\ resources = NoResources
  /\ results = NoResults
  /\ cur = NoCall
  /\ failures = 0
  /\ metrics = <<>>
  /\ sns = <<>>
  /\ error = ""
  /\ outcome = Pending

NoChild == [script |-> "none", pc |-> "none", args |-> <<>>, target_state |-> "",
            skip_backup |-> FALSE, force |-> FALSE, REPLY |-> "", status |-> 0]

\* No script is run.
ShellIdle ==
  /\ argv = <<>>
  /\ shpc = "none"
  /\ shell = [status |-> 0]
  /\ child = NoChild
  /\ ran = <<>>
  /\ cloud = [resources_exist |-> FALSE]

\* No pair of invocations is run.
PairIdle ==
  /\ inv = <<>>
  /\ reports = <<>>

Init == HandlerIdle /\ ShellIdle /\ PairIdle

\* ------------------------------------------------- getTaggedResources
\* What the list calls return: ids of each kind, every bucket with whether its
\* tag set has Project = PROJECT_TAG, every role and cluster with whether its
\* name includes PROJECT_NAME.
Counts == {c \in [1..4 -> 0..MaxBatch] : c[1] + c[2] + c[3] + c[4] <= MaxBatch}

Listings ==
  {[SecurityGroups |-> [i \in 1..c[1] |-> "sg-" \o ToString(i)],
    Buckets  |-> [i \in 1..c[2] |-> [Name |-> "bucket-" \o ToString(i), projectTag |-> f[i]]],
    Roles    |-> [i \in 1..c[3] |-> [RoleName |-> "role-" \o ToString(i), inProject |-> g[i]]],
    clusters |-> [i \in 1..c[4] |-> [name |-> "cluster-" \o ToString(i), inProject |-> h[i]]]] :
     c \in Counts, f \in [1..MaxBatch -> BOOLEAN], g \in [1..MaxBatch -> BOOLEAN],
     h \in [1..MaxBatch -> BOOLEAN]}

\* What a filter callback returns: a value, or (async callback) a Promise.
Returned(v)     == [isPromise |-> FALSE, resolvesTo |-> v]
PromiseOf(v)    == [isPromise |-> TRUE, resolvesTo |-> v]
\* Array.filter keeps an element when the callback's result is truthy; an
\* object, such as a Promise, is truthy.
ToBoolean(r)    == r.isPromise \/ r.resolvesTo

BucketFilter(bucket)   == PromiseOf(bucket.projectTag)
RoleFilter(role)       == Returned(role.inProject)
ClusterFilter(cluster) == Returned(cluster.inProject)

Names(clusters) == [i \in DOMAIN clusters |-> clusters[i].name]

TaggedResources(l) ==
  [securityGroups |-> l.SecurityGroups,
   s3Buckets      |-> SelectSeq(l.Buckets, LAMBDA b : ToBoolean(BucketFilter(b))),
   iamRoles       |-> SelectSeq(l.Roles, LAMBDA r : ToBoolean(RoleFilter(r))),
   eksClusters    |-> Names(SelectSeq(l.clusters, LAMBDA k : ToBoolean(ClusterFilter(k))))]

\* One of the list calls rejects: the error is logged and rethrown.
getTaggedResources ==
  /\ pc = "start"
  /\ \/ \E l \in Listings :
          /\ resources' = TaggedResources(l)
          /\ pc' = "fetched"
          /\ error' = error
     \/ /\ error' = "FetchError"
        /\ pc' = "catch"
        /\ resources' = resources
  /\ UNCHANGED <<results, cur, failures, metrics, sns, outcome>>
  /\ UNCHANGED <<shellVars, pairVars>>

\* ---------------------------------------------------- runSecurityChecks
runSecurityChecks ==
  /\ pc = "fetched"
  /\ \E t \in Timestamps :
       results' = [timestamp |-> t, environment |-> ENVIRONMENT, checks |-> <<>>]
  /\ pc' = "checking"
  /\ UNCHANGED <<resources, cur, failures, metrics, sns, error, outcome>>
  /\ UNCHANGED <<shellVars, pairVars>>

\* The four for-loops run one after the other, each pushing one entry per
\* resource: the number of entries pushed tells the loop and its position.
Done == Len(results.checks)
nSG  == Len(resources.securityGroups)
nS3  == Len(resources.s3Buckets)
nIAM == Len(resources.iamRoles)
nEKS == Len(resources.eksClusters)

\* The entry is put at the front of the report instead of at its end.
PushFront(resourceType, arg, r) ==
  /\ cur' = [resourceType |-> resourceType, arg |-> arg]
  /\ IF r.throws
       THEN /\ error' = "TypeError"
            /\ pc' = "catch"
            /\ results' = results
       ELSE /\ results' = [results EXCEPT !.checks = <<r.check>> \o @]
            /\ pc' = pc
            /\ error' = error
  /\ UNCHANGED <<resources, failures, metrics, sns, outcome>>

\* results.checks.push(await check...(resource)); a throwing check leaves
\* runSecurityChecks and is caught by the handler.
Push(resourceType, arg, r) ==
  /\ cur' = [resourceType |-> resourceType, arg |-> arg]
  /\ IF r.throws
       THEN /\ error' = "TypeError"
            /\ pc' = "catch"
            /\ results' = results
       ELSE /\ results' = [results EXCEPT !.checks = Append(@, r.check)]
            /\ pc' = pc
            /\ error' = error
  /\ UNCHANGED <<resources, failures, metrics, sns, outcome>>

CheckSecurityGroupStep ==
  /\ pc = "checking"
  /\ Done < nSG
  /\ \E sg \in SecurityGroups(resources.securityGroups[Done + 1]) :
       Push("SecurityGroup", sg, checkSecurityGroup(sg))
  /\ UNCHANGED <<shellVars, pairVars>>

CheckS3BucketStep ==
  /\ pc = "checking"
  /\ Done >= nSG
  /\ Done < nSG + nS3
  /\ \E bucket \in Buckets(resources.s3Buckets[Done - nSG + 1].Name) :
       Push("S3Bucket", bucket, checkS3Bucket(bucket))
  /\ UNCHANGED <<shellVars, pairVars>>

CheckIAMRoleStep ==
  /\ pc = "checking"
  /\ Done >= nSG + nS3
  /\ Done < nSG + nS3 + nIAM
  /\ \E role \in Roles(resources.iamRoles[Done - nSG - nS3 + 1].RoleName) :
       Push("IAMRole", role, checkIAMRole(role))
  /\ UNCHANGED <<shellVars, pairVars>>

CheckEKSClusterStep ==
  /\ pc = "checking"
  /\ Done >= nSG + nS3 + nIAM
  /\ Done < nSG + nS3 + nIAM + nEKS
  /\ \E cluster \in Clusters(resources.eksClusters[Done - nSG - nS3 - nIAM + 1]) :
       Push("EKSCluster", cluster, checkEKSCluster(cluster))
  /\ UNCHANGED <<shellVars, pairVars>>

\* return results: the loops are over, no check call is left.
ReturnResults ==
  /\ pc = "checking"
  /\ Done = nSG + nS3 + nIAM + nEKS
  /\ pc' = "process"
  /\ cur' = NoCall
  /\ UNCHANGED <<resources, results, failures, metrics, sns, error, outcome>>
  /\ UNCHANGED <<shellVars, pairVars>>

\* ------------------------------------------------------ processResults
\* The data point without its Environment dimension.
MetricDatumNoDimension(value) ==
  [Namespace |-> "CloudSecDemo", MetricName |-> "SecurityCheckFailures", Value |-> value,
   Unit |-> "Count", Dimensions |-> <<>>]

MetricDatum(value) ==
  [Namespace |-> "CloudSecDemo", MetricName |-> "SecurityCheckFailures", Value |-> value,
   Unit |-> "Count", Dimensions |-> <<[Name |-> "Environment", Value |-> ENVIRONMENT]>>]

ShouldAlertAlways(n) == n >= 0

ShouldAlertNever(n) == n < 0

ShouldAlert(n) == n > 0

\* Count the failures and await cloudwatch.putMetricData.
processResults ==
  /\ pc = "process"
  /\ failures' = CountFailures(results.checks)
  /\ \E accepted \in BOOLEAN :
       IF accepted
         THEN /\ metrics' = Append(metrics, MetricDatum(failures'))
              /\ pc' = IF ShouldAlert(failures') THEN "alert" ELSE "return"
              /\ error' = error
         ELSE /\ metrics' = metrics
              /\ error' = "MetricError"
              /\ pc' = "catch"
  /\ UNCHANGED <<resources, results, cur, sns, outcome>>
  /\ UNCHANGED <<shellVars, pairVars>>

\* sendAlert: one sns.publish; a rejection is logged and rethrown.
Publication(title, message, severity, details, t, delivered) ==
  [Subject |-> "[" \o severity \o "] " \o title,
   Message |-> [message |-> message, severity |-> severity, timestamp |-> t,
                details |-> details],
   delivered |-> delivered]

sendAlert(title, message, severity, details, delivered) ==
  \E t \in Timestamps :
    sns' = Append(sns, Publication(title, message, severity, details, t, delivered))

FailureMessage(n) == "Found " \o ToString(n) \o " security check failures"

\* processResults after the metric: await sendAlert({... details: results}).
SendFailureAlert ==
  /\ pc = "alert"
  /\ \E delivered \in BOOLEAN :
       /\ sendAlert("Security Check Failures", FailureMessage(failures), "HIGH",
                    Def(results), delivered)
       /\ IF delivered
            THEN pc' = "return" /\ error' = error
            ELSE pc' = "catch" /\ error' = "SNSError"
  /\ UNCHANGED <<resources, results, cur, failures, metrics, outcome>>
  /\ UNCHANGED <<shellVars, pairVars>>

\* ------------------------------------------------------------- handler
HandlerReturn ==
  /\ pc = "return"
  /\ outcome' = [state |-> "resolved", statusCode |-> 200, body |-> results, error |-> ""]
  /\ pc' = "done"
  /\ UNCHANGED <<resources, results, cur, failures, metrics, sns, error>>
  /\ UNCHANGED <<shellVars, pairVars>>

\* catch (error): log, await sendAlert('Security Check Error'), throw error.
\* A rejected sendAlert leaves the catch block with its own error.
HandlerCatch ==
  /\ pc = "catch"
  /\ \E delivered \in BOOLEAN :
       /\ sendAlert("Security Check Error", error, "CRITICAL", Undefined, delivered)
       /\ outcome' = [state |-> "rejected", statusCode |-> 0, body |-> NoResults,
                      error |-> IF delivered THEN error ELSE "SNSError"]
  /\ pc' = "done"
  /\ UNCHANGED <<resources, results, cur, failures, metrics, error>>
  /\ UNCHANGED <<shellVars, pairVars>>

Next ==
  \/ getTaggedResources
  \/ runSecurityChecks
  \/ CheckSecurityGroupStep
  \/ CheckS3BucketStep
  \/ CheckIAMRoleStep
  \/ CheckEKSClusterStep
  \/ ReturnResults
  \/ processResults
  \/ SendFailureAlert
  \/ HandlerReturn
  \/ HandlerCatch

Spec == Init /\ [][Next]_vars

\* ---------------------------------------------------------- properties
\* The check call on a resource of this kind has returned and its entry is
\* the last one of the report.
JustChecked(kind) == pc = "checking" /\ cur.resourceType = kind
LastEntry == results.checks[Len(results.checks)]

HasVerdict(entry, name, status) ==
  \E i \in DOMAIN entry.checks :
    entry.checks[i].name = name /\ entry.checks[i].status = status

\* The rules of each resource kind, in their order (spec section 4.2).
RulesFor(kind) ==
  CASE kind = "SecurityGroup" -> <<"open-ports">>
    [] kind = "S3Bucket"      -> <<"public-access", "encryption">>
    [] kind = "IAMRole"       -> <<"policy-wildcard">>
    [] kind = "EKSCluster"    -> <<"private-endpoint", "encryption", "logging">>

\* What one rule, evaluated alone on the resource of the check call, yields
\* (spec section 4.2): ERROR when the data the rule reads is missing.
RuleStatus(kind, rule, r) ==
  CASE kind = "S3Bucket" /\ rule = "public-access" ->
         IF r.publicAccess.rejects \/ ~r.publicAccess.PublicAccessBlockConfiguration.defined
           THEN "ERROR"
         ELSE IF r.publicAccess.PublicAccessBlockConfiguration.value.BlockPublicAcls
           THEN "PASS" ELSE "FAIL"
    [] kind = "S3Bucket" /\ rule = "encryption" ->
         IF r.encryption.rejects THEN "ERROR"
         ELSE IF r.encryption.ServerSideEncryptionConfiguration.defined
           THEN "PASS" ELSE "FAIL"
    [] kind = "EKSCluster" /\ rule = "private-endpoint" ->
         IF r.rejects \/ ~r.resourcesVpcConfig.defined THEN "ERROR"
         ELSE IF r.resourcesVpcConfig.value.endpointPrivateAccess THEN "PASS" ELSE "FAIL"
    [] kind = "EKSCluster" /\ rule = "encryption" ->
         IF r.rejects THEN "ERROR"
         ELSE IF r.encryptionConfig.defined THEN "PASS" ELSE "FAIL"
    [] kind = "EKSCluster" /\ rule = "logging" ->
         IF r.rejects \/ ~r.logging.defined THEN "ERROR"
         ELSE IF \E i \in DOMAIN r.logging.value.clusterLogging :
                   r.logging.value.clusterLogging[i].enabled
           THEN "PASS" ELSE "FAIL"

RuleNames(kind) == {RulesFor(kind)[i] : i \in DOMAIN RulesFor(kind)}

\* C1: runSecurityChecks always returns a report; no exception raised while
\* evaluating one resource leaves it.  (Stated as in the claim; the code
\* violates it: checkSecurityGroup has no try/catch.)
C1_NoCheckExceptionEscapes == error /= "TypeError"

\* C2: when a rule fails on a bucket or cluster, every rule of that resource
\* that does not itself fail still has its own verdict, and every ERROR
\* verdict belongs to a rule that failed.  (Stated as in the claim; the code
\* violates it: one try/catch spans all rules of a resource.)
C2_FailureIsIsolated ==
  \A kind \in {"S3Bucket", "EKSCluster"} :
    (JustChecked(kind)
       /\ \E rule \in RuleNames(kind) : RuleStatus(kind, rule, cur.arg) = "ERROR")
    => /\ \A rule \in RuleNames(kind) :
            RuleStatus(kind, rule, cur.arg) /= "ERROR"
              => HasVerdict(LastEntry, rule, RuleStatus(kind, rule, cur.arg))
       /\ \A i \in DOMAIN LastEntry.checks :
            LastEntry.checks[i].status = "ERROR"
              => /\ LastEntry.checks[i].name \in RuleNames(kind)
                 /\ RuleStatus(kind, LastEntry.checks[i].name, cur.arg) = "ERROR"

\* A role whose one inline policy was read, and the Action of its statement.
OnePolicyRole ==
  /\ JustChecked("IAMRole")
  /\ ~cur.arg.listRejects
  /\ Len(cur.arg.policies) = 1
  /\ ~cur.arg.policies[1].rejects
OnePolicyAction == cur.arg.policies[1].PolicyDocument.Statement[1].Action

\* C3: a role with one inline policy whose statement has Action "*" gets a
\* FAIL verdict; one whose policy has only specific actions gets PASS.
\* (Stated as in the claim; the code violates the FAIL half: the serialized
\* document never contains the text searched for.)
C3_WildcardActionFails ==
  OnePolicyRole
    => /\ (OnePolicyAction = [isArray |-> FALSE, items |-> <<"*">>]
             => \E i \in DOMAIN LastEntry.checks : LastEntry.checks[i].status = "FAIL")
       /\ (OnePolicyAction = [isArray |-> TRUE, items |-> <<"s3:GetObject">>]
             => /\ LastEntry.checks /= <<>>
                /\ \A i \in DOMAIN LastEntry.checks : LastEntry.checks[i].status = "PASS")

\* C4: a bucket whose public-access-block configuration is missing (the
\* lookup rejects, or the field is absent) has a verdict named public-access
\* with status ERROR.  (Stated as in the claim; the code names the ERROR
\* verdict bucket-check.)
C4_MissingPublicAccessBlockIsError ==
  (cur.resourceType = "S3Bucket"
     /\ (cur.arg.publicAccess.rejects
           \/ ~cur.arg.publicAccess.PublicAccessBlockConfiguration.defined))
    => /\ JustChecked("S3Bucket")
       /\ HasVerdict(LastEntry, "public-access", "ERROR")

\* C5: every checked resource has exactly one verdict for each rule of its
\* kind, no more and no fewer.  (Stated as in the claim; the code violates it
\* for roles and for every resource whose check hits an error.)
C5_OneVerdictPerRule ==
  \A kind \in {"SecurityGroup", "S3Bucket", "IAMRole", "EKSCluster"} :
    JustChecked(kind)
      => /\ Len(LastEntry.checks) = Len(RulesFor(kind))
         /\ \A rule \in RuleNames(kind) :
              Cardinality({i \in DOMAIN LastEntry.checks :
                             LastEntry.checks[i].name = rule}) = 1

\* The FAIL verdicts of a report, counted one by one.
FailVerdicts(checks) ==
  {p \in UNION {{<<i, j>> : j \in DOMAIN checks[i].checks} : i \in DOMAIN checks} :
     checks[p[1]].checks[p[2]].status = "FAIL"}
FailTotal == Cardinality(FailVerdicts(results.checks))

ReportHasStatus(status) ==
  \E i \in DOMAIN results.checks : \E j \in DOMAIN results.checks[i].checks :
    results.checks[i].checks[j].status = status

\* C6: the failure total computed by processResults, and the value of every
\* SecurityCheckFailures data point published, is the number of FAIL
\* verdicts of the report; PASS and ERROR verdicts add nothing.
C6_FailureTotalCountsFailVerdicts ==
  /\ (pc \in {"alert", "return"} \/ metrics /= <<>> \/ error = "MetricError")
       => failures = FailTotal
  /\ \A i \in DOMAIN metrics :
       /\ metrics[i].MetricName = "SecurityCheckFailures"
       /\ metrics[i].Value = FailTotal

C6_Witness ==
  /\ metrics /= <<>>
  /\ metrics[1].Value >= 1
  /\ ReportHasStatus("ERROR")
  /\ ReportHasStatus("PASS")

\* The sns.publish calls that carry the failure alert.
FailureAlerts == {i \in DOMAIN sns : sns[i].Subject = "[HIGH] Security Check Failures"}

CarriesReport(p) ==
  /\ p.Message.severity = "HIGH"
  /\ p.Message.timestamp \in Timestamps
  /\ p.Message.details = Def(results)

RunPublishedMetric == pc = "done" /\ metrics /= <<>>

\* C7 as claimed: in a run whose fetch and metric publication succeed, the
\* failure alert with severity, timestamp and the full report is published
\* if and only if the FAIL total is greater than zero.  (Fails when
\* sns.publish rejects.)
C7_AlertPublishedIffFailures ==
  RunPublishedMetric
    => ((\E i \in FailureAlerts : sns[i].delivered /\ CarriesReport(sns[i]))
          <=> FailTotal > 0)

\* C7 amended: in such a run the failure alert, with severity, timestamp and
\* the full report, is handed to sns.publish (once) if and only if the FAIL
\* total is greater than zero; it is published exactly when, in addition,
\* that publish call succeeds, and then the handler resolves.
C7_AlertSentIffFailures ==
  RunPublishedMetric
    => /\ (FailureAlerts /= {} <=> FailTotal > 0)
       /\ Cardinality(FailureAlerts) <= 1
       /\ \A i \in FailureAlerts : CarriesReport(sns[i])
       /\ ((\E i \in FailureAlerts : sns[i].delivered)
             <=> (FailTotal > 0 /\ outcome.state = "resolved"))

C7_Witness ==
  /\ RunPublishedMetric
  /\ FailTotal > 0
  /\ \E i \in FailureAlerts : sns[i].delivered /\ CarriesReport(sns[i])

\* Some ingress permission of the group has an IP range 0.0.0.0/0.
HasOpenRange(sg) ==
  /\ sg.IpPermissions.defined
  /\ \E i \in DOMAIN sg.IpPermissions.value :
       /\ sg.IpPermissions.value[i].IpRanges.defined
       /\ \E j \in DOMAIN sg.IpPermissions.value[i].IpRanges.value :
            sg.IpPermissions.value[i].IpRanges.value[j].CidrIp = "0.0.0.0/0"

\* C8: the open-ports check of a security group yields FAIL when some
\* ingress permission has an IP range 0.0.0.0/0 and PASS when none has.
\* (Stated as in the claim; the code throws instead when IpPermissions or an
\* IpRanges visited by the search is missing.)
C8_OpenPortsVerdict ==
  cur.resourceType = "SecurityGroup"
    => /\ JustChecked("SecurityGroup")
       /\ HasVerdict(LastEntry, "open-ports",
                     IF HasOpenRange(cur.arg) THEN "FAIL" ELSE "PASS")

\* The batch is one cluster and nothing else.
OneClusterBatch ==
  /\ resources.securityGroups = <<>>
  /\ resources.s3Buckets = <<>>
  /\ resources.iamRoles = <<>>
  /\ Len(resources.eksClusters) = 1

\* endpointPrivateAccess=false, no encryptionConfig, one logging entry with
\* enabled=false.
InsecureCluster(c) ==
  /\ ~c.rejects
  /\ c.resourcesVpcConfig = Def([endpointPrivateAccess |-> FALSE])
  /\ ~c.encryptionConfig.defined
  /\ c.logging = Def([clusterLogging |-> <<[enabled |-> FALSE]>>])

VerdictNames(entry)    == [i \in DOMAIN entry.checks |-> entry.checks[i].name]
VerdictStatuses(entry) == [i \in DOMAIN entry.checks |-> entry.checks[i].status]

ThreeFails(entry) ==
  /\ VerdictNames(entry) = <<"private-endpoint", "encryption", "logging">>
  /\ VerdictStatuses(entry) = <<"FAIL", "FAIL", "FAIL">>

\* C9: for a batch of one insecure cluster the report has exactly the three
\* verdicts private-endpoint, encryption, logging, in that order, all FAIL,
\* and processResults' failure total for that report is 3.
C9_InsecureClusterThreeFails ==
  /\ (OneClusterBatch /\ JustChecked("EKSCluster") /\ InsecureCluster(cur.arg))
       => /\ Len(results.checks) = 1
          /\ results.checks[1].resourceId = resources.eksClusters[1]
          /\ ThreeFails(results.checks[1])
  /\ (OneClusterBatch /\ Len(results.checks) = 1 /\ ThreeFails(results.checks[1])
        /\ (pc \in {"alert", "return"} \/ metrics /= <<>> \/ error = "MetricError"))
       => /\ failures = 3
          /\ \A i \in DOMAIN metrics : metrics[i].Value = 3

C9_Witness ==
  /\ OneClusterBatch
  /\ Len(results.checks) = 1
  /\ ThreeFails(results.checks[1])
  /\ metrics /= <<>>
  /\ failures = 3

\* C10: a bucket's public-access verdict is PASS when BlockPublicAcls is
\* true and FAIL when it is false, its encryption verdict is PASS when a
\* ServerSideEncryptionConfiguration is present and FAIL when the response
\* has none, each whatever the other lookup gave.  (Stated as in the claim;
\* the code drops the encryption verdict when the public-access lookup
\* fails.)
C10_BucketVerdictsIndependent ==
  cur.resourceType = "S3Bucket"
    => /\ JustChecked("S3Bucket")
       /\ (/\ ~cur.arg.publicAccess.rejects
           /\ cur.arg.publicAccess.PublicAccessBlockConfiguration.defined)
            => HasVerdict(LastEntry, "public-access",
                 IF cur.arg.publicAccess.PublicAccessBlockConfiguration.value.BlockPublicAcls
                   THEN "PASS" ELSE "FAIL")
       /\ ~cur.arg.encryption.rejects
            => HasVerdict(LastEntry, "encryption",
                 IF cur.arg.encryption.ServerSideEncryptionConfiguration.defined
                   THEN "PASS" ELSE "FAIL")

\* The resources of the batch in the order runSecurityChecks visits them.
SuppliedIds ==
  resources.securityGroups
    \o [i \in DOMAIN resources.s3Buckets |-> resources.s3Buckets[i].Name]
    \o [i \in DOMAIN resources.iamRoles |-> resources.iamRoles[i].RoleName]
    \o resources.eksClusters

SuppliedKinds ==
  [i \in 1..nSG |-> "SecurityGroup"] \o [i \in 1..nS3 |-> "S3Bucket"]
    \o [i \in 1..nIAM |-> "IAMRole"] \o [i \in 1..nEKS |-> "EKSCluster"]

IsPrefix(s, t) == Len(s) <= Len(t) /\ \A i \in DOMAIN s : s[i] = t[i]

\* The verdicts of an entry that carry the name of a rule of the kind.
RuleVerdictNames(entry) ==
  SelectSeq(VerdictNames(entry), LAMBDA n : n \in RuleNames(entry.resourceType))

\* The verdicts of a role entry that were given for a policy.
PolicyVerdictNames(entry) ==
  SelectSeq(VerdictNames(entry), LAMBDA n : n /= "role-check")

\* C13: the report's entries are the supplied resources in the order security
\* groups, buckets, roles, clusters, each kind in input order (all of them
\* once the checks have returned), and within an entry the verdicts of the
\* kind's rules appear in the order of the rules; a role's verdicts follow
\* the order of its policy names.
C13_ReportInSuppliedOrder ==
  /\ Done <= Len(SuppliedIds)
  /\ \A i \in DOMAIN results.checks :
       /\ results.checks[i].resourceId = SuppliedIds[i]
       /\ results.checks[i].resourceType = SuppliedKinds[i]
       /\ IF results.checks[i].resourceType = "IAMRole"
            THEN \A j \in DOMAIN PolicyVerdictNames(results.checks[i]) :
                   PolicyVerdictNames(results.checks[i])[j] = "policy-" \o PolicyNameOf(j)
            ELSE IsPrefix(RuleVerdictNames(results.checks[i]),
                          RulesFor(results.checks[i].resourceType))
  /\ pc \in {"process", "alert", "return"} => Done = Len(SuppliedIds)
  /\ outcome.state = "resolved" => Done = Len(SuppliedIds)

C13_Witness ==
  /\ outcome.state = "resolved"
  /\ Len(outcome.body.checks) = 2
  /\ outcome.body.checks[1].resourceType = "S3Bucket"
  /\ VerdictNames(outcome.body.checks[1]) = <<"public-access", "encryption">>
  /\ outcome.body.checks[2].resourceType = "EKSCluster"
  /\ VerdictNames(outcome.body.checks[2]) = <<"private-endpoint", "encryption", "logging">>

\* The batch has no resource of the kind.
NoneOfKind(kind) ==
  CASE kind = "SecurityGroup" -> nSG = 0
    [] kind = "S3Bucket"      -> nS3 = 0
    [] kind = "IAMRole"       -> nIAM = 0
    [] kind = "EKSCluster"    -> nEKS = 0

Kinds == {"SecurityGroup", "S3Bucket", "IAMRole", "EKSCluster"}

\* C14: a kind with no resources in the batch has no entry, hence no verdict,
\* in the report; with all four kinds empty the report has no verdicts, the
\* failure total and every published metric value are 0 and no failure alert
\* is published.
C14_EmptyKindsContributeNothing ==
  /\ \A kind \in Kinds :
       NoneOfKind(kind) => \A i \in DOMAIN results.checks :
                             results.checks[i].resourceType /= kind
  /\ (\A kind \in Kinds : NoneOfKind(kind))
       => /\ results.checks = <<>>
          /\ failures = 0
          /\ \A i \in DOMAIN metrics : metrics[i].Value = 0
          /\ FailureAlerts = {}
          /\ outcome.state = "resolved" => outcome.body.checks = <<>>

C14_Witness ==
  /\ \A kind \in Kinds : NoneOfKind(kind)
  /\ outcome.state = "resolved"
  /\ Len(metrics) = 1
  /\ metrics[1].Value = 0
  /\ sns = <<>>

\* C15: a handler invocation that caught an error ends rejected with that
\* same error, after one 'Security Check Error' alert of severity CRITICAL
\* was attempted, whether or not the alert was delivered.  (Stated as in the
\* claim; the code violates it: a rejected sendAlert in the catch block
\* replaces the error.)
C15_RejectsWithCaughtError ==
  (pc = "done" /\ error /= "")
    => /\ outcome.state = "rejected"
       /\ outcome.error = error
       /\ Cardinality({i \in DOMAIN sns :
                         sns[i].Subject = "[CRITICAL] Security Check Error"}) = 1

\* The listed buckets that reached the batch, by tag.
UntaggedInBatch ==
  {i \in DOMAIN resources.s3Buckets : ~ resources.s3Buckets[i].projectTag}

BucketEntries == {k \in DOMAIN results.checks : results.checks[k].resourceType = "S3Bucket"}

\* C22: the batch returned by getTaggedResources holds only buckets whose
\* tag set contains Project = PROJECT_TAG, and every bucket entry of the
\* report belongs to such a bucket.  (Stated as in the claim; the code
\* violates it: the filter callback is async, its Promise is truthy, and
\* every listed bucket is kept.)
C22_OnlyProjectBucketsChecked ==
  /\ UntaggedInBatch = {}
  /\ \A k \in BucketEntries :
       \E i \in DOMAIN resources.s3Buckets :
         /\ resources.s3Buckets[i].Name = results.checks[k].resourceId
         /\ resources.s3Buckets[i].projectTag

\* Fetching and checking have completed and processResults has called
\* cloudwatch.putMetricData.
MetricAttempted ==
  /\ pc \in {"alert", "return", "catch", "done"}
  /\ error \notin {"FetchError", "TypeError"}

\* putMetricData calls of the invocation: the accepted ones and the rejected one.
MetricAttempts == Len(metrics) + (IF error = "MetricError" THEN 1 ELSE 0)

\* C23: once fetching and checking have completed, putMetricData is called
\* exactly once, with the metric SecurityCheckFailures, the FAIL total as its
\* value and the Environment dimension; a failure alert is sent only after
\* the metric was accepted, and when the metric publication fails no
\* 'Security Check Failures' alert is sent.  Before the checks complete no
\* metric is published.
C23_MetricOnceBeforeAlert ==
  /\ MetricAttempted => MetricAttempts = 1
  /\ ~ MetricAttempted => (metrics = <<>> /\ FailureAlerts = {})
  /\ \A m \in DOMAIN metrics :
       /\ metrics[m].MetricName = "SecurityCheckFailures"
       /\ metrics[m].Value = FailTotal
       /\ metrics[m].Dimensions = <<[Name |-> "Environment", Value |-> ENVIRONMENT]>>
  /\ FailureAlerts /= {} => Len(metrics) = 1
  /\ error = "MetricError" => (metrics = <<>> /\ FailureAlerts = {})

\* A run with failures whose metric was accepted and whose failure alert
\* was sent afterwards.
C23_Witness ==
  /\ pc = "done"
  /\ MetricAttempted
  /\ Len(metrics) = 1
  /\ metrics[1].Value = 2
  /\ FailureAlerts /= {}

\* C25: the handler resolves with statusCode 200 and the report only if the
\* metric was accepted and, when the FAIL total is positive, the failure
\* alert was published; every other finished invocation rejects; no
\* invocation makes more than two sns.publish calls.
C25_ResolvesOnlyAfterMetricAndAlert ==
  /\ Len(sns) <= 2
  /\ outcome.state = "resolved"
       => /\ outcome.statusCode = 200
          /\ outcome.body = results
          /\ Len(metrics) = 1
          /\ FailTotal > 0 => \E i \in FailureAlerts : sns[i].delivered
  /\ pc = "done"
       => /\ outcome.state \in {"resolved", "rejected"}
          /\ (Len(metrics) = 0 \/ (FailTotal > 0 /\ ~ \E i \in FailureAlerts : sns[i].delivered))
               => outcome.state = "rejected"

\* A run whose failure alert was rejected and whose error alert was then
\* attempted: two publish calls and a rejected invocation.
C25_Witness ==
  /\ pc = "done"
  /\ outcome.state = "rejected"
  /\ Len(metrics) = 1
  /\ FailTotal > 0
  /\ Len(sns) = 2
  /\ ~ sns[1].delivered

\* ================================================================ toggle.sh
\* scripts/toggle.sh with the scripts it starts, quick-toggle.sh and
\* full-toggle.sh.  An external command (aws, terraform, kubectl, cp) either
\* succeeds or ends the script: every script runs under set -e.  log_error
\* (utils/logger.sh) logs and exits with status 1.

MaxOpts == 2   \* options after the two positional arguments

MODE_QUICK     == "quick"
MODE_FULL      == "full"
STATE_SECURE   == "secure"
STATE_INSECURE == "insecure"

\* "rebuild" and "open" stand for any other word.
ToggleModes  == {MODE_QUICK, MODE_FULL, "rebuild"}
TargetStates == {STATE_SECURE, STATE_INSECURE, "open"}
\* "--verbose" stands for any option the script does not know.
ToggleOptions == {"--force", "--no-backup", "--help", "--verbose"}
\* What the user types at a read -n 1 prompt.
Replies == {"y", "Y", "n", ""}

\* Every reply counts as a confirmation.
YesAlways(reply) == TRUE

Yes(reply) == reply \in {"y", "Y"}

ToggleCommandLines ==
  {[toggle_mode |-> m, target_state |-> t, options |-> o] :
     m \in ToggleModes, t \in TargetStates, o \in SeqsUpTo(ToggleOptions, MaxOpts)}

Step(script, name) == [script |-> script, step |-> name]

Exit(code) ==
  /\ shpc' = "exit"
  /\ shell' = [shell EXCEPT !.status = code]

\* The option loop of main: --help (print_usage) and an unknown option
\* (log_error) end the script with status 1.
RECURSIVE ParseToggleOptions(_, _)
ParseToggleOptions(options, sh) ==
  IF options = <<>> THEN sh
  ELSE CASE Head(options) = "--force" ->
              ParseToggleOptions(Tail(options), [sh EXCEPT !.FORCE_TOGGLE = TRUE])
         [] Head(options) = "--no-backup" ->
              ParseToggleOptions(Tail(options), [sh EXCEPT !.BACKUP_ENABLED = FALSE])
         [] OTHER -> [sh EXCEPT !.exits = TRUE]

ToggleDefaults ==
  [FORCE_TOGGLE |-> FALSE, BACKUP_ENABLED |-> TRUE, REPLY |-> "", exits |-> FALSE, status |-> 0]

\* The settings validate_security_state inspects: the database security
\* group's rules for port 27017 (from 0.0.0.0/0, from the application
\* group), whether the application group has an ingress rule from
\* 0.0.0.0/0, the project bucket's public access block ("" when there is
\* none, else the value of its four flags) and default encryption, whether
\* app-policy of the application role allows every action, and the cluster's
\* encryption configuration and control-plane logging.
Settings ==
  [db_cidr : BOOLEAN, db_source_group : BOOLEAN, app_open : BOOLEAN,
   public_access_block : {"", "true", "false"}, bucket_encryption : BOOLEAN,
   wildcard_policy : BOOLEAN, eks_encryption : BOOLEAN, eks_logging : BOOLEAN]

Cloud(resources_exist, s) ==
  [resources_exist |-> resources_exist, db_cidr |-> s.db_cidr,
   db_source_group |-> s.db_source_group, app_open |-> s.app_open,
   public_access_block |-> s.public_access_block,
   bucket_encryption |-> s.bucket_encryption, wildcard_policy |-> s.wildcard_policy,
   eks_encryption |-> s.eks_encryption, eks_logging |-> s.eks_logging]

\* Deployments in which the database port is open to 0.0.0.0/0, or to the
\* application group only, with the other settings alike.
DeployedSettings ==
  {s \in Settings :
     /\ s.db_cidr /= s.db_source_group
     /\ ~s.app_open
     /\ s.public_access_block = (IF s.db_cidr THEN "" ELSE "true")
     /\ s.bucket_encryption = ~s.db_cidr
     /\ s.wildcard_policy = s.db_cidr
     /\ s.eks_encryption = ~s.db_cidr
     /\ s.eks_logging = ~s.db_cidr}

ToggleInit ==
  /\ HandlerIdle
  /\ PairIdle
  /\ argv \in ToggleCommandLines
  /\ shpc = "main"
  /\ shell = ToggleDefaults
  /\ child = NoChild
  /\ ran = <<>>
  /\ cloud \in {Cloud(e, s) : e \in BOOLEAN, s \in DeployedSettings}

\* The steps of main after the option loop, in the order main calls them.
MainStepsBackupLast ==
  <<"validate_current_state", "confirm_toggle", "execute", "create_backup",
    "validate_target_state", "log_success">>

MainSteps ==
  <<"validate_current_state", "confirm_toggle", "create_backup", "execute",
    "validate_target_state", "log_success">>

After(step) ==
  MainSteps[(CHOOSE i \in DOMAIN MainSteps : MainSteps[i] = step) + 1]

toggle_main ==
  /\ shpc = "main"
  /\ LET sh == ParseToggleOptions(argv.options, shell) IN
       IF sh.exits
         THEN shpc' = "exit" /\ shell' = [sh EXCEPT !.status = 1]
         ELSE shpc' = MainSteps[1] /\ shell' = sh
  /\ UNCHANGED <<argv, child, ran, cloud>>
  /\ UNCHANGED <<handlerVars, pairVars>>

\* validate_current_state is called by main and defined in no script of the
\* project: the call returns, or it ends the script (command not found).
validate_current_state ==
  /\ shpc = "validate_current_state"
  /\ \E found \in BOOLEAN :
       IF found
         THEN /\ ran' = Append(ran, Step("toggle.sh", "validate_current_state"))
              /\ shpc' = After("validate_current_state")
              /\ shell' = shell
         ELSE /\ Exit(127)
              /\ ran' = ran
  /\ UNCHANGED <<argv, child, cloud>>
  /\ UNCHANGED <<handlerVars, pairVars>>

confirm_toggle ==
  /\ shpc = "confirm_toggle"
  /\ IF shell.FORCE_TOGGLE
       THEN /\ shpc' = After("confirm_toggle")
            /\ UNCHANGED <<shell, ran>>
       ELSE \E reply \in Replies :
              /\ ran' = Append(ran, Step("toggle.sh", "read"))
              /\ IF Yes(reply)
                   THEN /\ shpc' = After("confirm_toggle")
                        /\ shell' = [shell EXCEPT !.REPLY = reply]
                   ELSE /\ shpc' = "exit"
                        /\ shell' = [shell EXCEPT !.REPLY = reply, !.status = 1]
  /\ UNCHANGED <<argv, child, cloud>>
  /\ UNCHANGED <<handlerVars, pairVars>>

\* mkdir and cp of the state file and config.yaml; a failing cp ends the
\* script.
create_backup ==
  /\ shpc = "create_backup"
  /\ IF shell.BACKUP_ENABLED
       THEN \E copied \in BOOLEAN :
              IF copied
                THEN /\ ran' = Append(ran, Step("toggle.sh", "create_backup"))
                     /\ shpc' = After("create_backup")
                     /\ shell' = shell
                ELSE /\ Exit(1)
                     /\ ran' = ran
       ELSE /\ shpc' = After("create_backup")
            /\ UNCHANGED <<shell, ran>>
  /\ UNCHANGED <<argv, child, cloud>>
  /\ UNCHANGED <<handlerVars, pairVars>>

\* The command line execute_quick_toggle and execute_full_toggle start the
\* other script with.
ChildArgs(target_state) == <<target_state>>

StartChild(script, args) ==
  [NoChild EXCEPT !.script = script, !.pc = "main", !.args = args]

\* case "$toggle_mode": a mode that is neither quick nor full matches no
\* branch.
execute ==
  /\ shpc = "execute"
  /\ CASE argv.toggle_mode = MODE_QUICK ->
            /\ child' = StartChild("quick-toggle.sh", ChildArgs(argv.target_state))
            /\ ran' = Append(ran, Step("toggle.sh", "execute_quick_toggle"))
            /\ shpc' = "wait"
       [] argv.toggle_mode = MODE_FULL ->
            /\ child' = StartChild("full-toggle.sh", ChildArgs(argv.target_state))
            /\ ran' = Append(ran, Step("toggle.sh", "execute_full_toggle"))
            /\ shpc' = "wait"
       [] OTHER ->
            /\ shpc' = After("execute")
            /\ UNCHANGED <<child, ran>>
  /\ UNCHANGED <<argv, shell, cloud>>
  /\ UNCHANGED <<handlerVars, pairVars>>

\* The started script has ended: set -e ends toggle.sh with the same status
\* when it is not 0.
wait ==
  /\ shpc = "wait"
  /\ child.pc = "exit"
  /\ IF child.status = 0
       THEN shpc' = After("execute") /\ shell' = shell
       ELSE Exit(child.status)
  /\ child' = NoChild
  /\ UNCHANGED <<argv, ran, cloud>>
  /\ UNCHANGED <<handlerVars, pairVars>>

\* validate_target_state, like validate_current_state, is defined in no
\* script of the project.
validate_target_state ==
  /\ shpc = "validate_target_state"
  /\ \E found \in BOOLEAN :
       IF found
         THEN /\ ran' = Append(ran, Step("toggle.sh", "validate_target_state"))
              /\ shpc' = After("validate_target_state")
              /\ shell' = shell
         ELSE /\ Exit(127)
              /\ ran' = ran
  /\ UNCHANGED <<argv, child, cloud>>
  /\ UNCHANGED <<handlerVars, pairVars>>

\* log_success "Successfully toggled to ..." and the end of main.
log_success ==
  /\ shpc = "log_success"
  /\ ran' = Append(ran, Step("toggle.sh", "Successfully toggled"))
  /\ Exit(0)
  /\ UNCHANGED <<argv, child, cloud>>
  /\ UNCHANGED <<handlerVars, pairVars>>

\* ---------------------------------------------------------- quick-toggle.sh
ChildExit(code) == child' = [child EXCEPT !.pc = "exit", !.status = code]

\* main up to the updates: one argument, secure or insecure.
quick_main ==
  /\ child.script = "quick-toggle.sh"
  /\ child.pc = "main"
  /\ IF Len(child.args) /= 1 \/ child.args[1] \notin {"secure", "insecure"}
       THEN ChildExit(1)
       ELSE child' = [child EXCEPT !.target_state = child.args[1],
                                   !.pc = "update_security_groups"]
  /\ UNCHANGED <<argv, shpc, shell, ran, cloud>>
  /\ UNCHANGED <<handlerVars, pairVars>>

\* The aws commands of an update function for a target state, in the order
\* the function runs them.
Commands(name, target_state) ==
  CASE name = "update_security_groups" ->
         IF target_state = "secure"
           THEN <<"revoke-ingress-cidr", "authorize-ingress-source-group">>
           ELSE <<"revoke-ingress-source-group", "authorize-ingress-cidr">>
    [] name = "update_s3_policies" ->
         IF target_state = "secure"
           THEN <<"put-public-access-block", "put-bucket-encryption">>
           ELSE <<"delete-public-access-block", "delete-bucket-encryption">>
    [] name = "update_iam_policies" ->
         IF target_state = "secure"
           THEN <<"put-role-policy-least-privilege">>
           ELSE <<"put-role-policy-wildcard">>
    [] name = "update_eks_config" ->
         IF target_state = "secure"
           THEN <<"update-cluster-config-encryption", "update-cluster-config-logging-on">>
           ELSE <<"update-cluster-config-logging-off">>

\* A rule can be revoked when it exists and authorized when it does not;
\* the other commands put or delete a setting whatever it was.
Accepted(command, c) ==
  CASE command = "revoke-ingress-cidr"            -> c.db_cidr
    [] command = "authorize-ingress-source-group" -> ~c.db_source_group
    [] command = "revoke-ingress-source-group"    -> c.db_source_group
    [] command = "authorize-ingress-cidr"         -> ~c.db_cidr
    [] OTHER -> TRUE

\* The setting a successful command leaves.
Apply(command, c) ==
  CASE command = "revoke-ingress-cidr"            -> [c EXCEPT !.db_cidr = FALSE]
    [] command = "authorize-ingress-source-group" -> [c EXCEPT !.db_source_group = TRUE]
    [] command = "revoke-ingress-source-group"    -> [c EXCEPT !.db_source_group = FALSE]
    [] command = "authorize-ingress-cidr"         -> [c EXCEPT !.db_cidr = TRUE]
    [] command = "put-public-access-block"        -> [c EXCEPT !.public_access_block = "true"]
    [] command = "put-bucket-encryption"          -> [c EXCEPT !.bucket_encryption = TRUE]
    [] command = "delete-public-access-block"     -> [c EXCEPT !.public_access_block = ""]
    [] command = "delete-bucket-encryption"       -> [c EXCEPT !.bucket_encryption = FALSE]
    [] command = "put-role-policy-least-privilege" -> [c EXCEPT !.wildcard_policy = FALSE]
    [] command = "put-role-policy-wildcard"       -> [c EXCEPT !.wildcard_policy = TRUE]
    [] command = "update-cluster-config-encryption" -> [c EXCEPT !.eks_encryption = TRUE]
    [] command = "update-cluster-config-logging-on" -> [c EXCEPT !.eks_logging = TRUE]
    [] command = "update-cluster-config-logging-off" -> [c EXCEPT !.eks_logging = FALSE]

\* The outcomes of running the commands in order under set -e: every
\* command succeeds, or one fails and the later ones are not run.
RECURSIVE RunCommands(_, _)
RunCommands(commands, c) ==
  IF commands = <<>> THEN {[cloud |-> c, failed |-> FALSE]}
  ELSE {[cloud |-> c, failed |-> TRUE]}
         \cup (IF Accepted(Head(commands), c)
                 THEN RunCommands(Tail(commands), Apply(Head(commands), c))
                 ELSE {})

\* One update function of quick-toggle.sh: its aws commands succeed, or one
\* of them fails and ends the script.
QuickUpdate(name, next) ==
  /\ child.script = "quick-toggle.sh"
  /\ child.pc = name
  /\ \E o \in RunCommands(Commands(name, child.target_state), cloud) :
       /\ cloud' = o.cloud
       /\ IF o.failed
            THEN /\ ChildExit(1)
                 /\ ran' = ran
            ELSE /\ ran' = Append(ran, Step("quick-toggle.sh", name))
                 /\ child' = [child EXCEPT !.pc = next]
  /\ UNCHANGED <<argv, shpc, shell>>
  /\ UNCHANGED <<handlerVars, pairVars>>

update_security_groups == QuickUpdate("update_security_groups", "update_s3_policies")
update_s3_policies     == QuickUpdate("update_s3_policies", "update_iam_policies")
update_iam_policies    == QuickUpdate("update_iam_policies", "update_eks_config")
update_eks_config      == QuickUpdate("update_eks_config", "completed")

quick_completed ==
  /\ child.script = "quick-toggle.sh"
  /\ child.pc = "completed"
  /\ ChildExit(0)
  /\ UNCHANGED <<argv, shpc, shell, ran, cloud>>
  /\ UNCHANGED <<handlerVars, pairVars>>

\* ----------------------------------------------------------- full-toggle.sh
\* The option loop of main: an unknown option ends the script (log_error).
RECURSIVE ParseFullOptions(_, _)
ParseFullOptions(options, c) ==
  IF options = <<>> THEN c
  ELSE CASE Head(options) = "--skip-backup" ->
              ParseFullOptions(Tail(options), [c EXCEPT !.skip_backup = TRUE])
         [] Head(options) = "--force" ->
              ParseFullOptions(Tail(options), [c EXCEPT !.force = TRUE])
         [] OTHER -> [c EXCEPT !.pc = "exit", !.status = 1]

\* main up to the check for existing resources.
full_main ==
  /\ child.script = "full-toggle.sh"
  /\ child.pc = "main"
  /\ IF child.args = <<>>
       THEN ChildExit(1)
       ELSE LET c == ParseFullOptions(Tail(child.args),
                                      [child EXCEPT !.target_state = Head(child.args)]) IN
              IF c.pc = "exit" THEN child' = c
              ELSE IF c.target_state \notin {"secure", "insecure"} THEN ChildExit(1)
              ELSE child' = [c EXCEPT !.pc = "check_existing_resources"]
  /\ UNCHANGED <<argv, shpc, shell, ran, cloud>>
  /\ UNCHANGED <<handlerVars, pairVars>>

\* if [[ $(check_existing_resources) == "true" ]]: without force the user
\* is asked; any reply but y or Y cancels.
full_confirm ==
  /\ child.script = "full-toggle.sh"
  /\ child.pc = "check_existing_resources"
  /\ IF ~cloud.resources_exist
       THEN /\ child' = [child EXCEPT !.pc = "update_configurations"]
            /\ ran' = ran
       ELSE IF child.force
       THEN /\ child' = [child EXCEPT !.pc = "save_state"]
            /\ ran' = ran
       ELSE \E reply \in Replies :
              /\ ran' = Append(ran, Step("full-toggle.sh", "read"))
              /\ child' = IF Yes(reply)
                            THEN [child EXCEPT !.REPLY = reply, !.pc = "save_state"]
                            ELSE [child EXCEPT !.REPLY = reply, !.pc = "exit", !.status = 1]
  /\ UNCHANGED <<argv, shpc, shell, cloud>>
  /\ UNCHANGED <<handlerVars, pairVars>>

save_state ==
  /\ child.script = "full-toggle.sh"
  /\ child.pc = "save_state"
  /\ IF child.skip_backup
       THEN /\ child' = [child EXCEPT !.pc = "destroy_infrastructure"]
            /\ ran' = ran
       ELSE \E copied \in BOOLEAN :
              IF copied
                THEN /\ ran' = Append(ran, Step("full-toggle.sh", "save_state"))
                     /\ child' = [child EXCEPT !.pc = "destroy_infrastructure"]
                ELSE /\ ChildExit(1)
                     /\ ran' = ran
  /\ UNCHANGED <<argv, shpc, shell, cloud>>
  /\ UNCHANGED <<handlerVars, pairVars>>

\* terraform destroy -auto-approve, then the check that nothing is left:
\* the command fails, or it succeeds and resources are left (log_error), or
\* everything is gone.
destroy_infrastructure ==
  /\ child.script = "full-toggle.sh"
  /\ child.pc = "destroy_infrastructure"
  /\ ran' = Append(ran, Step("full-toggle.sh", "destroy_infrastructure"))
  /\ \E result \in {"failed", "left", "gone"} :
       IF result = "gone"
         THEN /\ cloud' = [cloud EXCEPT !.resources_exist = FALSE]
              /\ child' = [child EXCEPT !.pc = "update_configurations"]
         ELSE /\ cloud' = cloud
              /\ ChildExit(1)
  /\ UNCHANGED <<argv, shpc, shell>>
  /\ UNCHANGED <<handlerVars, pairVars>>

update_configurations ==
  /\ child.script = "full-toggle.sh"
  /\ child.pc = "update_configurations"
  /\ \E updated \in BOOLEAN :
       IF updated
         THEN /\ ran' = Append(ran, Step("full-toggle.sh", "update_configurations"))
              /\ child' = [child EXCEPT !.pc = "deploy_infrastructure"]
         ELSE /\ ChildExit(1)
              /\ ran' = ran
  /\ UNCHANGED <<argv, shpc, shell, cloud>>
  /\ UNCHANGED <<handlerVars, pairVars>>

\* terraform init, plan, apply, then the check that resources exist.
deploy_infrastructure ==
  /\ child.script = "full-toggle.sh"
  /\ child.pc = "deploy_infrastructure"
  /\ ran' = Append(ran, Step("full-toggle.sh", "deploy_infrastructure"))
  /\ \E applied \in BOOLEAN :
       IF applied
         THEN /\ cloud' = [cloud EXCEPT !.resources_exist = TRUE]
              /\ child' = [child EXCEPT !.pc = "configure_application"]
         ELSE /\ cloud' = cloud
              /\ ChildExit(1)
  /\ UNCHANGED <<argv, shpc, shell>>
  /\ UNCHANGED <<handlerVars, pairVars>>

\* kubectl apply and wait, then the end of main.
configure_application ==
  /\ child.script = "full-toggle.sh"
  /\ child.pc = "configure_application"
  /\ \E ready \in BOOLEAN :
       IF ready
         THEN /\ ran' = Append(ran, Step("full-toggle.sh", "configure_application"))
              /\ ChildExit(0)
         ELSE /\ ChildExit(1)
              /\ ran' = ran
  /\ UNCHANGED <<argv, shpc, shell, cloud>>
  /\ UNCHANGED <<handlerVars, pairVars>>

ToggleNext ==
  \/ toggle_main
  \/ validate_current_state
  \/ confirm_toggle
  \/ create_backup
  \/ execute
  \/ wait
  \/ validate_target_state
  \/ log_success
  \/ quick_main
  \/ update_security_groups
  \/ update_s3_policies
  \/ update_iam_policies
  \/ update_eks_config
  \/ quick_completed
  \/ full_main
  \/ full_confirm
  \/ save_state
  \/ destroy_infrastructure
  \/ update_configurations
  \/ deploy_infrastructure
  \/ configure_application

SpecToggle == ToggleInit /\ [][ToggleNext]_vars

\* full-toggle.sh started on its own:
\* ./full-toggle.sh [secure|insecure] [--skip-backup] [--force]
FullOptions == {"--skip-backup", "--force", "--verbose"}

FullCommandLines ==
  {<<>>} \cup {<<t>> \o o : t \in TargetStates, o \in SeqsUpTo(FullOptions, MaxOpts)}

FullToggleInit ==
  /\ HandlerIdle
  /\ PairIdle
  /\ argv = <<>>
  /\ shpc = "none"
  /\ shell = [status |-> 0]
  /\ child \in {StartChild("full-toggle.sh", a) : a \in FullCommandLines}
  /\ ran = <<>>
  /\ cloud \in {[resources_exist |-> e] : e \in BOOLEAN}

FullToggleNext ==
  \/ full_main
  \/ full_confirm
  \/ save_state
  \/ destroy_infrastructure
  \/ update_configurations
  \/ deploy_infrastructure
  \/ configure_application

SpecFullToggle == FullToggleInit /\ [][FullToggleNext]_vars

\* --------------------------------------------- properties of full-toggle.sh
FullRan(name) == \E i \in DOMAIN ran : ran[i] = Step("full-toggle.sh", name)

FullRank(name) ==
  CASE name = "read"                   -> 1
    [] name = "save_state"             -> 2
    [] name = "destroy_infrastructure" -> 3
    [] name = "update_configurations"  -> 4
    [] name = "deploy_infrastructure"  -> 5
    [] name = "configure_application"  -> 6

OptionGiven(option) ==
  \E i \in DOMAIN child.args : i > 1 /\ child.args[i] = option

\* The step the script starts in this transition, if any.
Starts(name) ==
  /\ Len(ran') = Len(ran) + 1
  /\ ran'[Len(ran')] = Step("full-toggle.sh", name)

C24_Steps ==
  /\ \A i, j \in DOMAIN ran : i < j => FullRank(ran[i].step) < FullRank(ran[j].step)
  /\ FullRan("configure_application")
       => FullRan("update_configurations") /\ FullRan("deploy_infrastructure")
  /\ FullRan("deploy_infrastructure") => FullRan("update_configurations")
  /\ FullRan("destroy_infrastructure")
       => \/ OptionGiven("--force")
          \/ FullRan("read") /\ child.REPLY \in {"y", "Y"}
  /\ FullRan("destroy_infrastructure")
       => (FullRan("save_state") <=> ~OptionGiven("--skip-backup"))
  /\ OptionGiven("--force") => ~FullRan("read")
  /\ OptionGiven("--skip-backup") => ~FullRan("save_state")

C24_StopsWhenResourcesLeft ==
  (/\ FullRan("destroy_infrastructure")
   /\ Starts("update_configurations") \/ Starts("deploy_infrastructure"))
    => ~cloud.resources_exist

Given(option) == \E i \in DOMAIN argv.options : argv.options[i] = option

Ran(script, name) == \E i \in DOMAIN ran : ran[i] = Step(script, name)

ArgsInvalid ==
  \/ argv.toggle_mode \notin {"quick", "full"}
  \/ argv.target_state \notin {"secure", "insecure"}

StepRank(name) ==
  CASE name = "validate_current_state" -> 1
    [] name = "read"                   -> 2
    [] name = "create_backup"          -> 3
    [] name \in {"execute_quick_toggle", "execute_full_toggle"} -> 4
    [] name = "validate_target_state"  -> 5
    [] name = "Successfully toggled"   -> 6

Toggled == Ran("toggle.sh", "execute_quick_toggle") \/ Ran("toggle.sh", "execute_full_toggle")

Violations(findings) == Cardinality({i \in DOMAIN findings : findings[i]})

\* for sg in (groups tagged Project=cloudsecdemo): open ingress in the
\* secure state, or no open ingress in the insecure state.
check_security_groups(state, c) ==
  LET open_ingress == <<c.db_cidr, c.app_open>> IN
    Violations([sg \in DOMAIN open_ingress |->
                  \/ state = "secure" /\ open_ingress[sg]
                  \/ state = "insecure" /\ ~open_ingress[sg]])

check_iam_configurations(state, c) ==
  Violations(<<IF c.wildcard_policy THEN state = "secure" ELSE state = "insecure">>)

check_s3_configurations(state, c) ==
  Violations(<<IF state = "secure"
                 THEN c.public_access_block \in {"", "false"}
                 ELSE c.public_access_block = "true",
               \/ state = "secure" /\ ~c.bucket_encryption
               \/ state = "insecure" /\ c.bucket_encryption>>)

check_eks_configurations(state, c) ==
  Violations(<<\/ state = "secure" /\ ~c.eks_encryption
               \/ state = "insecure" /\ c.eks_encryption,
               \/ state = "secure" /\ ~c.eks_logging
               \/ state = "insecure" /\ c.eks_logging>>)

total_violations(target_state, c) ==
  check_security_groups(target_state, c) + check_iam_configurations(target_state, c)
    + check_s3_configurations(target_state, c) + check_eks_configurations(target_state, c)

\* A quick toggle to one state, a quick toggle to the other state, then the
\* validation of that state: each script is started when the one before it
\* has ended with status 0.
ToggleOrders ==
  {[first |-> a, target_state |-> b] : a, b \in {"secure", "insecure"}} \ 
    {[first |-> a, target_state |-> a] : a \in {"secure", "insecure"}}

QuickToggleInit ==
  /\ HandlerIdle
  /\ PairIdle
  /\ argv \in ToggleOrders
  /\ shpc = "first"
  /\ shell = [status |-> 0, total_violations |-> 0]
  /\ child = NoChild
  /\ ran = <<>>
  /\ cloud \in {Cloud(TRUE, s) : s \in Settings}

\* ./quick-toggle.sh <state>
start_quick_toggle ==
  /\ shpc \in {"first", "second"}
  /\ child' = StartChild("quick-toggle.sh",
                         ChildArgs(IF shpc = "first" THEN argv.first ELSE argv.target_state))
  /\ shpc' = IF shpc = "first" THEN "first toggle" ELSE "second toggle"
  /\ UNCHANGED <<argv, shell, ran, cloud>>
  /\ UNCHANGED <<handlerVars, pairVars>>

\* The quick toggle has ended: completed, or stopped by a failed command.
quick_toggle_ended ==
  /\ shpc \in {"first toggle", "second toggle"}
  /\ child.script = "quick-toggle.sh"
  /\ child.pc = "exit"
  /\ shell' = [shell EXCEPT !.status = child.status]
  /\ shpc' = IF child.status /= 0 THEN "exit"
             ELSE IF shpc = "first toggle" THEN "second" ELSE "validate"
  /\ UNCHANGED <<argv, child, ran, cloud>>
  /\ UNCHANGED <<handlerVars, pairVars>>

\* validate_security_state <state>: the sum of the four checks; log_error
\* when it is positive.
validate_security_state ==
  /\ shpc = "validate"
  /\ LET n == total_violations(argv.target_state, cloud) IN
       shell' = [status |-> IF n > 0 THEN 1 ELSE 0, total_violations |-> n]
  /\ ran' = Append(ran, Step("security_validator.sh", "validate_security_state"))
  /\ shpc' = "validated"
  /\ UNCHANGED <<argv, child, cloud>>
  /\ UNCHANGED <<handlerVars, pairVars>>

QuickToggleNext ==
  \/ start_quick_toggle
  \/ quick_main
  \/ update_security_groups
  \/ update_s3_policies
  \/ update_iam_policies
  \/ update_eks_config
  \/ quick_completed
  \/ quick_toggle_ended
  \/ validate_security_state

SpecQuickToggle == QuickToggleInit /\ [][QuickToggleNext]_vars

\* The value validate_security_state expects of every setting it inspects.
Expected(state, c) ==
  /\ c.db_cidr = (state = "insecure")
  /\ c.app_open = (state = "insecure")
  /\ c.wildcard_policy = (state = "insecure")
  /\ IF state = "secure" THEN c.public_access_block = "true"
                         ELSE c.public_access_block /= "true"
  /\ c.bucket_encryption = (state = "secure")
  /\ c.eks_encryption = (state = "secure")
  /\ c.eks_logging = (state = "secure")

\* C21: after a completed quick toggle to one state and a completed quick
\* toggle to the other state S, every setting validate_security_state
\* inspects has the value expected for S and validate_security_state S
\* counts zero violations.  (Stated as in the claim; the code violates it:
\* the insecure branch of update_eks_config leaves the encryption
\* configuration in place, and no update function touches the application
\* security group.)
C21_SecondToggleValidates ==
  shpc = "validated"
    => /\ Expected(argv.target_state, cloud)
       /\ shell.total_violations = 0

\* =============================================================== destroy.sh
\* scripts/destroy.sh and the buckets of the project.  A bucket name is the
\* sequence of the words its dashes separate; a bucket created by Terraform
\* (terraform/modules/storage) is in the state of one workspace.
PROJECT_NAME == "cloudsecdemo"

Bucket(name, workspace) == [name |-> name, workspace |-> workspace]

AllBuckets ==
  {Bucket(<<PROJECT_NAME, "data", "secure", "x1">>, "secure"),
   Bucket(<<PROJECT_NAME, "backup", "secure", "x1">>, "secure"),
   Bucket(<<PROJECT_NAME, "backup", "insecure", "x2">>, "insecure"),
   Bucket(<<PROJECT_NAME, "backup", "manual">>, "none"),
   Bucket(<<"other", "backup", "misc">>, "none")}

\* starts_with(Name, PROJECT_NAME)
StartsWithProject(name) == name[1] = PROJECT_NAME

\* [[ "$bucket" == *"-backup-"* ]]: the word backup with a dash on each side.
MatchesBackup(name) == \E i \in 2..(Len(name) - 1) : name[i] = "backup"

DestroyOptions == {"--force", "--keep-logs", "--keep-backups", "--verbose"}

Workspaces == <<"secure", "insecure">>

\* The buckets that exist and the workspaces terraform can select; a bucket
\* of a workspace's state exists only with the workspace.
Clouds ==
  {[buckets |-> b, workspaces |-> w, existed |-> b] :
     b \in SUBSET AllBuckets, w \in SUBSET {"secure", "insecure"}} 

DestroyDefaults ==
  [FORCE_DESTROY |-> FALSE, KEEP_LOGS |-> FALSE, KEEP_BACKUPS |-> FALSE,
   REPLY |-> "", exits |-> FALSE, workspace |-> 1, status |-> 0]

DestroyInit ==
  /\ HandlerIdle
  /\ PairIdle
  /\ argv \in {[options |-> o] : o \in SeqsUpTo(DestroyOptions, MaxOpts)}
  /\ shpc = "main"
  /\ shell = DestroyDefaults
  /\ child = NoChild
  /\ ran = <<>>
  /\ cloud \in {c \in Clouds :
                  \A b \in c.buckets : b.workspace = "none" \/ b.workspace \in c.workspaces}

RECURSIVE ParseDestroyOptions(_, _)
ParseDestroyOptions(options, sh) ==
  IF options = <<>> THEN sh
  ELSE CASE Head(options) = "--force" ->
              ParseDestroyOptions(Tail(options), [sh EXCEPT !.FORCE_DESTROY = TRUE])
         [] Head(options) = "--keep-logs" ->
              ParseDestroyOptions(Tail(options), [sh EXCEPT !.KEEP_LOGS = TRUE])
         [] Head(options) = "--keep-backups" ->
              ParseDestroyOptions(Tail(options), [sh EXCEPT !.KEEP_BACKUPS = TRUE])
         [] OTHER -> [sh EXCEPT !.exits = TRUE]

parse_arguments ==
  /\ shpc = "main"
  /\ LET sh == ParseDestroyOptions(argv.options, shell) IN
       IF sh.exits
         THEN shpc' = "exit" /\ shell' = [sh EXCEPT !.status = 1]
         ELSE shpc' = "confirm" /\ shell' = sh
  /\ UNCHANGED <<argv, child, ran, cloud>>
  /\ UNCHANGED <<handlerVars, pairVars>>

\* main: the confirmation, skipped with --force.
confirm_destroy ==
  /\ shpc = "confirm"
  /\ IF shell.FORCE_DESTROY
       THEN /\ shpc' = "cleanup_kubernetes"
            /\ UNCHANGED <<shell, ran>>
       ELSE \E reply \in Replies :
              /\ ran' = Append(ran, Step("destroy.sh", "read"))
              /\ IF Yes(reply)
                   THEN /\ shpc' = "cleanup_kubernetes"
                        /\ shell' = [shell EXCEPT !.REPLY = reply]
                   ELSE /\ shpc' = "exit"
                        /\ shell' = [shell EXCEPT !.REPLY = reply, !.status = 1]
  /\ UNCHANGED <<argv, child, cloud>>
  /\ UNCHANGED <<handlerVars, pairVars>>

\* kubectl delete namespace ... || true: never ends the script.
cleanup_kubernetes ==
  /\ shpc = "cleanup_kubernetes"
  /\ ran' = Append(ran, Step("destroy.sh", "cleanup_kubernetes"))
  /\ shpc' = "cleanup_monitoring"
  /\ UNCHANGED <<argv, shell, child, cloud>>
  /\ UNCHANGED <<handlerVars, pairVars>>

\* A cleanup function whose aws calls succeed, or one of them fails and ends
\* the script.
Cleanup(name, next) ==
  /\ shpc = name
  /\ \E cleaned \in BOOLEAN :
       IF cleaned
         THEN /\ ran' = Append(ran, Step("destroy.sh", name))
              /\ shpc' = next
              /\ shell' = shell
         ELSE /\ Exit(1)
              /\ ran' = ran
  /\ UNCHANGED <<argv, child, cloud>>
  /\ UNCHANGED <<handlerVars, pairVars>>

cleanup_monitoring == Cleanup("cleanup_monitoring", "cleanup_s3")

\* The buckets the loop of cleanup_s3 empties and deletes.
S3Deletions(buckets, KEEP_BACKUPS) ==
  {b \in buckets : StartsWithProject(b.name) /\ ~(KEEP_BACKUPS /\ MatchesBackup(b.name))}

\* The loop deletes every bucket it does not skip, or an aws call fails
\* after some of them and ends the script.
cleanup_s3 ==
  /\ shpc = "cleanup_s3"
  /\ ran' = Append(ran, Step("destroy.sh", "cleanup_s3"))
  /\ \E deleted \in SUBSET S3Deletions(cloud.buckets, shell.KEEP_BACKUPS) :
       /\ cloud' = [cloud EXCEPT !.buckets = @ \ deleted]
       /\ IF deleted = S3Deletions(cloud.buckets, shell.KEEP_BACKUPS)
            THEN shpc' = "cleanup_iam" /\ shell' = shell
            ELSE Exit(1)
  /\ UNCHANGED <<argv, child>>
  /\ UNCHANGED <<handlerVars, pairVars>>

cleanup_iam == Cleanup("cleanup_iam", "destroy_infrastructure")

\* What terraform destroy removes in the selected workspace: every resource
\* of its state, the buckets of modules/storage among them.
TerraformDestroy(buckets, workspace) == {b \in buckets : b.workspace /= workspace}

\* One turn of the loop over the workspaces: a workspace that cannot be
\* selected is passed over; terraform destroy succeeds or ends the script.
destroy_sh_infrastructure ==
  /\ shpc = "destroy_infrastructure"
  /\ shell.workspace <= Len(Workspaces)
  /\ LET workspace == Workspaces[shell.workspace] IN
       IF workspace \notin cloud.workspaces
         THEN /\ shell' = [shell EXCEPT !.workspace = @ + 1]
              /\ UNCHANGED <<shpc, ran, cloud>>
         ELSE /\ ran' = Append(ran, Step("destroy.sh", "terraform destroy"))
              /\ \E destroyed \in BOOLEAN :
                   IF destroyed
                     THEN /\ cloud' = [cloud EXCEPT
                                         !.buckets = TerraformDestroy(@, workspace)]
                          /\ shell' = [shell EXCEPT !.workspace = @ + 1]
                          /\ shpc' = shpc
                     ELSE /\ Exit(1)
                          /\ cloud' = cloud
  /\ UNCHANGED <<argv, child>>
  /\ UNCHANGED <<handlerVars, pairVars>>

\* log_success "Cleanup completed successfully!" and the end of main.
cleanup_completed ==
  /\ shpc = "destroy_infrastructure"
  /\ shell.workspace > Len(Workspaces)
  /\ ran' = Append(ran, Step("destroy.sh", "Cleanup completed"))
  /\ Exit(0)
  /\ UNCHANGED <<argv, child, cloud>>
  /\ UNCHANGED <<handlerVars, pairVars>>

DestroyNext ==
  \/ parse_arguments
  \/ confirm_destroy
  \/ cleanup_kubernetes
  \/ cleanup_monitoring
  \/ cleanup_s3
  \/ cleanup_iam
  \/ destroy_sh_infrastructure
  \/ cleanup_completed

SpecDestroy == DestroyInit /\ [][DestroyNext]_vars

\* The project's backup buckets: name starts with the project name and
\* contains -backup-.
BackupBuckets(buckets) ==
  {b \in buckets : b.name[1] = "cloudsecdemo" /\ \E i \in 2..(Len(b.name) - 1) : b.name[i] = "backup"}

\* C17: after destroy.sh --keep-backups has run to completion every backup
\* bucket of the project that existed before the run still exists.  (Stated
\* as in the claim; the code violates it: terraform destroy removes the
\* backup bucket of each workspace.)
C17_KeepBackupsKeepsBackupBuckets ==
  (Given("--keep-backups") /\ Ran("destroy.sh", "Cleanup completed"))
    => BackupBuckets(cloud.existed) \subseteq cloud.buckets

\* ======================================================= resource_tagger.sh
\* scripts/utils/resource_tagger.sh.  "--project" and "--environment" stand
\* for the option with its value; "--verbose" for any unknown option.
MaxTagArgs == 3   \* options on the command line of resource_tagger.sh

TaggerOptions == {"--project", "--environment", "--dry-run", "--verbose"}

\* The kinds of resources the script looks up; a volume is found through the
\* instance it is attached to.
TagKinds == {"instance", "volume", "bucket", "cluster", "function", "log-group", "role"}

TaggerClouds ==
  {[found |-> f, tagged |-> {}] :
     f \in {g \in SUBSET TagKinds : "volume" \in g => "instance" \in g}}

TaggerDefaults ==
  [PROJECT_NAME |-> "", ENVIRONMENT |-> "", DRY_RUN |-> FALSE, exits |-> FALSE, status |-> 0]

TaggerInit ==
  /\ HandlerIdle
  /\ PairIdle
  /\ argv \in {[options |-> o] : o \in SeqsUpTo(TaggerOptions, MaxTagArgs)}
  /\ shpc = "main"
  /\ shell = TaggerDefaults
  /\ child = NoChild
  /\ ran = <<>>
  /\ cloud \in TaggerClouds

RECURSIVE ParseTaggerOptions(_, _)
ParseTaggerOptions(options, sh) ==
  IF options = <<>> THEN sh
  ELSE CASE Head(options) = "--project" ->
              ParseTaggerOptions(Tail(options), [sh EXCEPT !.PROJECT_NAME = PROJECT_NAME])
         [] Head(options) = "--environment" ->
              ParseTaggerOptions(Tail(options), [sh EXCEPT !.ENVIRONMENT = ENVIRONMENT])
         [] Head(options) = "--dry-run" ->
              ParseTaggerOptions(Tail(options), [sh EXCEPT !.DRY_RUN = TRUE])
         [] OTHER -> [sh EXCEPT !.exits = TRUE]

\* The option loop and the check of the required arguments, before main.
tagger_arguments ==
  /\ shpc = "main"
  /\ LET sh == ParseTaggerOptions(argv.options, shell) IN
       IF sh.exits \/ sh.PROJECT_NAME = "" \/ sh.ENVIRONMENT = ""
         THEN shpc' = "exit" /\ shell' = [sh EXCEPT !.status = 1]
         ELSE shpc' = "tag_ec2_resources" /\ shell' = sh
  /\ UNCHANGED <<argv, child, ran, cloud>>
  /\ UNCHANGED <<handlerVars, pairVars>>

\* The aws call that tags a resource of the kind.
TagCall(kind) ==
  CASE kind \in {"instance", "volume"} -> "aws ec2 create-tags"
    [] kind = "bucket"    -> "aws s3api put-bucket-tagging"
    [] kind = "cluster"   -> "aws eks tag-resource"
    [] kind = "function"  -> "aws lambda tag-resource"
    [] kind = "log-group" -> "aws logs tag-log-group"
    [] kind = "role"      -> "aws iam tag-role"

\* The kinds a tagging function tags when it finds a resource of its kind:
\* the branch that tags an instance goes on to the instance's volumes.
TaggedWith(kind, found) ==
  IF kind = "instance" /\ "volume" \in found THEN <<"instance", "volume">> ELSE <<kind>>

\* The loop of a tagging function tags whatever DRY_RUN says.
TagsToApplyIgnoringDryRun(kind, found, DRY_RUN) ==
  IF kind \notin found THEN <<>> ELSE TaggedWith(kind, found)

\* The loop of a tagging function: with DRY_RUN it only logs "Would tag".
TagsToApply(kind, found, DRY_RUN) ==
  IF kind \notin found \/ DRY_RUN THEN <<>> ELSE TaggedWith(kind, found)

Calls(kinds) == [i \in DOMAIN kinds |-> Step("resource_tagger.sh", TagCall(kinds[i]))]

Elements(kinds) == {kinds[i] : i \in DOMAIN kinds}

\* One tagging function: every tagging call succeeds, or one of them fails
\* after the first k and ends the script.
TagFunction(name, kind, next) ==
  /\ shpc = name
  /\ LET kinds == TagsToApply(kind, cloud.found, shell.DRY_RUN) IN
       \/ /\ ran' = ran
                      \o (IF kind \in cloud.found /\ shell.DRY_RUN
                            THEN <<Step("resource_tagger.sh", "Would tag " \o kind)>>
                            ELSE <<>>)
                      \o Calls(kinds)
          /\ cloud' = [cloud EXCEPT !.tagged = @ \cup Elements(kinds)]
          /\ shpc' = next
          /\ shell' = shell
       \/ \E k \in 0..(Len(kinds) - 1) :
            /\ ran' = ran \o Calls(SubSeq(kinds, 1, k + 1))
            /\ cloud' = [cloud EXCEPT !.tagged = @ \cup Elements(SubSeq(kinds, 1, k))]
            /\ Exit(1)
  /\ UNCHANGED <<argv, child>>
  /\ UNCHANGED <<handlerVars, pairVars>>

tag_ec2_resources        == TagFunction("tag_ec2_resources", "instance", "tag_s3_buckets")
tag_s3_buckets           == TagFunction("tag_s3_buckets", "bucket", "tag_eks_resources")
tag_eks_resources        == TagFunction("tag_eks_resources", "cluster", "tag_lambda_functions")
tag_lambda_functions     == TagFunction("tag_lambda_functions", "function", "tag_cloudwatch_resources")
tag_cloudwatch_resources == TagFunction("tag_cloudwatch_resources", "log-group", "tag_iam_roles")
tag_iam_roles            == TagFunction("tag_iam_roles", "role", "verify_tags")

\* main: verify_tags unless DRY_RUN; a missing tag ends the script
\* (log_error), then the closing messages.
verify_tags ==
  /\ shpc = "verify_tags"
  /\ IF shell.DRY_RUN
       THEN /\ ran' = Append(ran, Step("resource_tagger.sh", "Dry run complete"))
            /\ Exit(0)
       ELSE \E verified \in BOOLEAN :
              /\ ran' = Append(ran, Step("resource_tagger.sh", "verify_tags"))
              /\ IF verified THEN Exit(0) ELSE Exit(1)
  /\ UNCHANGED <<argv, child, cloud>>
  /\ UNCHANGED <<handlerVars, pairVars>>

TaggerNext ==
  \/ tagger_arguments
  \/ tag_ec2_resources
  \/ tag_s3_buckets
  \/ tag_eks_resources
  \/ tag_lambda_functions
  \/ tag_cloudwatch_resources
  \/ tag_iam_roles
  \/ verify_tags

SpecTagger == TaggerInit /\ [][TaggerNext]_vars

TaggingCalls ==
  {"aws ec2 create-tags", "aws s3api put-bucket-tagging", "aws eks tag-resource",
   "aws lambda tag-resource", "aws logs tag-log-group", "aws iam tag-role"}

\* C19: in a run of resource_tagger.sh with --dry-run no tagging call is
\* issued for any kind of resource, no resource receives tags and
\* verify_tags is not run.
C19_DryRunChangesNothing ==
  Given("--dry-run")
    => /\ \A i \in DOMAIN ran : ran[i].step \notin TaggingCalls \cup {"verify_tags"}
       /\ cloud.tagged = {}

\* A dry run that found a resource of every kind has run to its end.
C19_Witness ==
  /\ Given("--dry-run")
  /\ cloud.found = TagKinds
  /\ shpc = "exit"
  /\ shell.status = 0
  /\ Ran("resource_tagger.sh", "Would tag instance")
  /\ Ran("resource_tagger.sh", "Would tag role")
  /\ Ran("resource_tagger.sh", "Dry run complete")

\* ================================================== two handler invocations
\* Two invocations of exports.handler whose steps interleave at the awaits.
\* The module scope of index.js holds the AWS clients and constants only;
\* resources, results and failures are locals of the functions of one
\* invocation.  CloudWatch and SNS are shared: they record who called.
Invocations == {1, 2}

\* What the list calls return to an invocation.
PairListings ==
  {<<>>,
   <<[resourceType |-> "SecurityGroup", resourceId |-> "sg-1"]>>,
   <<[resourceType |-> "IAMRole", resourceId |-> "role-1"]>>,
   <<[resourceType |-> "S3Bucket", resourceId |-> "bucket-1"],
     [resourceType |-> "EKSCluster", resourceId |-> "cluster-1"]>>}

\* The resource, with the API responses of its check, that a check call is
\* given: a group without IpPermissions or with one permission of one
\* range; a bucket whose public-access lookup rejects or reports
\* BlockPublicAcls=false; a role with one policy whose Action is "*" or a
\* list; a cluster whose lookup rejects or that is insecure in all three
\* rules.
PairDescriptors(r) ==
  CASE r.resourceType = "SecurityGroup" ->
         {sg \in SecurityGroups(r.resourceId) :
            \/ ~sg.IpPermissions.defined
            \/ /\ Len(sg.IpPermissions.value) = 1
               /\ sg.IpPermissions.value[1].IpRanges.defined
               /\ Len(sg.IpPermissions.value[1].IpRanges.value) = 1}
    [] r.resourceType = "S3Bucket" ->
         {b \in Buckets(r.resourceId) :
            /\ b.encryption = [rejects |-> FALSE, ServerSideEncryptionConfiguration |-> Undefined]
            /\ \/ b.publicAccess.rejects
               \/ b.publicAccess.PublicAccessBlockConfiguration = Def([BlockPublicAcls |-> FALSE])}
    [] r.resourceType = "IAMRole" ->
         {role \in Roles(r.resourceId) :
            /\ Len(role.policies) = 1
            /\ ~role.policies[1].rejects
            /\ role.policies[1].PolicyDocument.Statement[1].Action.items = <<"*">>}
    [] r.resourceType = "EKSCluster" ->
         {c \in Clusters(r.resourceId) :
            \/ c.rejects
            \/ /\ c.resourcesVpcConfig = Def([endpointPrivateAccess |-> FALSE])
               /\ ~c.encryptionConfig.defined
               /\ c.logging = Def([clusterLogging |-> <<[enabled |-> FALSE]>>])}

Checked(resourceType, arg) == [resourceType |-> resourceType, arg |-> arg]

\* The check gives FAIL verdicts to every resource once a metric was
\* published.
CheckResourceCounting(d) ==
  LET r == CASE d.resourceType = "SecurityGroup" -> checkSecurityGroup(d.arg)
             [] d.resourceType = "S3Bucket"      -> checkS3Bucket(d.arg)
             [] d.resourceType = "IAMRole"       -> checkIAMRole(d.arg)
             [] d.resourceType = "EKSCluster"    -> checkEKSCluster(d.arg)
  IN IF metrics = <<>> THEN r
     ELSE [r EXCEPT !.check.checks =
             [i \in DOMAIN @ |-> [@[i] EXCEPT !.status = STATUS.FAIL]]]

\* The check function the loop of the resource's kind calls.
CheckResource(d) ==
  CASE d.resourceType = "SecurityGroup" -> checkSecurityGroup(d.arg)
    [] d.resourceType = "S3Bucket"      -> checkS3Bucket(d.arg)
    [] d.resourceType = "IAMRole"       -> checkIAMRole(d.arg)
    [] d.resourceType = "EKSCluster"    -> checkEKSCluster(d.arg)

\* The results object lives in the module scope: one for all invocations.
ModuleScopeResults(i) == 1

\* const results = {...} is a local of runSecurityChecks: one object per
\* call, hence per invocation.
ResultsOf(i) == i

NewInvocation ==
  [pc |-> "start", resources |-> <<>>, checked |-> <<>>, timestamp |-> "",
   failures |-> 0, error |-> "", outcome |-> Pending]

PairInit ==
  /\ HandlerIdle
  /\ ShellIdle
  /\ inv = [i \in Invocations |-> NewInvocation]
  /\ reports = [i \in Invocations |-> NoResults]

PairFrame == UNCHANGED <<pc, resources, results, cur, failures, error, outcome, shellVars>>

getTaggedResourcesOf(i) ==
  /\ inv[i].pc = "start"
  /\ \/ \E l \in PairListings :
          inv' = [inv EXCEPT ![i].resources = l, ![i].pc = "fetched"]
     \/ inv' = [inv EXCEPT ![i].error = "FetchError", ![i].pc = "catch"]
  /\ UNCHANGED <<reports, metrics, sns>>
  /\ PairFrame

runSecurityChecksOf(i) ==
  /\ inv[i].pc = "fetched"
  /\ \E t \in Timestamps :
       /\ reports' = [reports EXCEPT ![ResultsOf(i)] =
                        [timestamp |-> t, environment |-> ENVIRONMENT, checks |-> <<>>]]
       /\ inv' = [inv EXCEPT ![i].timestamp = t, ![i].pc = "checking"]
  /\ UNCHANGED <<metrics, sns>>
  /\ PairFrame

\* One turn of the for-loops: results.checks.push(await check...(resource)).
CheckStepOf(i) ==
  /\ inv[i].pc = "checking"
  /\ Len(inv[i].checked) < Len(inv[i].resources)
  /\ LET resource == inv[i].resources[Len(inv[i].checked) + 1] IN
       \E arg \in PairDescriptors(resource) :
         LET d == Checked(resource.resourceType, arg)
             r == CheckResource(d)
         IN IF r.throws
              THEN /\ inv' = [inv EXCEPT ![i].checked = Append(@, d),
                                         ![i].error = "TypeError", ![i].pc = "catch"]
                   /\ reports' = reports
              ELSE /\ inv' = [inv EXCEPT ![i].checked = Append(@, d)]
                   /\ reports' = [reports EXCEPT ![ResultsOf(i)].checks = Append(@, r.check)]
  /\ UNCHANGED <<metrics, sns>>
  /\ PairFrame

ReturnResultsOf(i) ==
  /\ inv[i].pc = "checking"
  /\ Len(inv[i].checked) = Len(inv[i].resources)
  /\ inv' = [inv EXCEPT ![i].pc = "process"]
  /\ UNCHANGED <<reports, metrics, sns>>
  /\ PairFrame

processResultsOf(i) ==
  /\ inv[i].pc = "process"
  /\ LET n == CountFailures(reports[ResultsOf(i)].checks) IN
       \E accepted \in BOOLEAN :
         IF accepted
           THEN /\ metrics' = Append(metrics, [by |-> i, datum |-> MetricDatum(n)])
                /\ inv' = [inv EXCEPT ![i].failures = n,
                             ![i].pc = IF ShouldAlert(n) THEN "alert" ELSE "return"]
           ELSE /\ metrics' = metrics
                /\ inv' = [inv EXCEPT ![i].failures = n, ![i].error = "MetricError",
                                      ![i].pc = "catch"]
  /\ UNCHANGED <<reports, sns>>
  /\ PairFrame

sendAlertOf(i, title, message, severity, details, delivered) ==
  \E t \in Timestamps :
    sns' = Append(sns, [by |-> i,
                        publication |-> Publication(title, message, severity, details, t,
                                                    delivered)])

SendFailureAlertOf(i) ==
  /\ inv[i].pc = "alert"
  /\ \E delivered \in BOOLEAN :
       /\ sendAlertOf(i, "Security Check Failures", FailureMessage(inv[i].failures), "HIGH",
                      Def(reports[ResultsOf(i)]), delivered)
       /\ inv' = IF delivered THEN [inv EXCEPT ![i].pc = "return"]
                 ELSE [inv EXCEPT ![i].pc = "catch", ![i].error = "SNSError"]
  /\ UNCHANGED <<reports, metrics>>
  /\ PairFrame

HandlerReturnOf(i) ==
  /\ inv[i].pc = "return"
  /\ inv' = [inv EXCEPT ![i].pc = "done",
               ![i].outcome = [state |-> "resolved", statusCode |-> 200,
                               body |-> reports[ResultsOf(i)], error |-> ""]]
  /\ UNCHANGED <<reports, metrics, sns>>
  /\ PairFrame

HandlerCatchOf(i) ==
  /\ inv[i].pc = "catch"
  /\ \E delivered \in BOOLEAN :
       /\ sendAlertOf(i, "Security Check Error", inv[i].error, "CRITICAL", Undefined,
                      delivered)
       /\ inv' = [inv EXCEPT ![i].pc = "done",
                    ![i].outcome = [state |-> "rejected", statusCode |-> 0,
                                    body |-> NoResults,
                                    error |-> IF delivered THEN inv[i].error
                                              ELSE "SNSError"]]
  /\ UNCHANGED <<reports, metrics>>
  /\ PairFrame

PairNext ==
  \/ \E i \in Invocations : getTaggedResourcesOf(i)
  \/ \E i \in Invocations : runSecurityChecksOf(i)
  \/ \E i \in Invocations : CheckStepOf(i)
  \/ \E i \in Invocations : ReturnResultsOf(i)
  \/ \E i \in Invocations : processResultsOf(i)
  \/ \E i \in Invocations : SendFailureAlertOf(i)
  \/ \E i \in Invocations : HandlerReturnOf(i)
  \/ \E i \in Invocations : HandlerCatchOf(i)

SpecPair == PairInit /\ [][PairNext]_vars

\* ------------------------------------- properties of the two invocations
\* The entry of the k-th resource an invocation checked, if the check
\* returned one: a check that throws ends the run and leaves no entry.
HasEntry(i, k) == k <= Len(reports[i].checks)

RECURSIVE AloneChecks(_)
AloneChecks(checked) ==
  IF checked = <<>> THEN <<>>
  ELSE LET kind == Head(checked).resourceType
           arg  == Head(checked).arg
           r    == CASE kind = "SecurityGroup" -> checkSecurityGroup(arg)
                     [] kind = "S3Bucket"      -> checkS3Bucket(arg)
                     [] kind = "IAMRole"       -> checkIAMRole(arg)
                     [] kind = "EKSCluster"    -> checkEKSCluster(arg)
       IN IF r.throws THEN <<>> ELSE <<r.check>> \o AloneChecks(Tail(checked))

AloneReport(i) ==
  [timestamp |-> inv[i].timestamp, environment |-> ENVIRONMENT,
   checks |-> AloneChecks(inv[i].checked)]

AloneFailures(i) == Cardinality(FailVerdicts(AloneChecks(inv[i].checked)))

MetricsBy(i) == {m \in DOMAIN metrics : metrics[m].by = i}
AlertsBy(i, subject) ==
  {a \in DOMAIN sns : sns[a].by = i /\ sns[a].publication.Subject = subject}

\* C12: however the steps of the two invocations interleave, each
\* invocation's report, failure count, metric, alerts and outcome are those
\* of that invocation run on its own with the responses it was given: the
\* report holds exactly the entries of its own checks, the metric is
\* published at most once with its own failure total, the failure alert is
\* sent at most once and carries its own report, and it resolves with its
\* own report or rejects with its own error.
C12_InterleavingEqualsSequential ==
  \A i \in Invocations :
    /\ inv[i].pc \notin {"start", "fetched"} /\ inv[i].timestamp /= ""
         => reports[i] = AloneReport(i)
    /\ inv[i].timestamp = ""
         => reports[i] = NoResults /\ MetricsBy(i) = {}
    /\ inv[i].pc \in {"alert", "return"} => inv[i].failures = AloneFailures(i)
    /\ Cardinality(MetricsBy(i)) <= 1
    /\ \A m \in MetricsBy(i) : metrics[m].datum = MetricDatum(AloneFailures(i))
    /\ Cardinality(AlertsBy(i, "[HIGH] Security Check Failures")) <= 1
    /\ \A a \in AlertsBy(i, "[HIGH] Security Check Failures") :
         /\ AloneFailures(i) > 0
         /\ MetricsBy(i) /= {}
         /\ sns[a].publication.Message.message = FailureMessage(AloneFailures(i))
         /\ sns[a].publication.Message.details = Def(AloneReport(i))
    /\ Cardinality(AlertsBy(i, "[CRITICAL] Security Check Error")) <= 1
    /\ \A a \in AlertsBy(i, "[CRITICAL] Security Check Error") :
         inv[i].error /= "" /\ sns[a].publication.Message.message = inv[i].error
    /\ inv[i].outcome.state = "resolved"
         => /\ inv[i].outcome.body = AloneReport(i)
            /\ inv[i].error = ""
            /\ Cardinality(MetricsBy(i)) = 1
            /\ AloneFailures(i) > 0
                 <=> AlertsBy(i, "[HIGH] Security Check Failures") /= {}
    /\ inv[i].outcome.state = "rejected"
         => /\ inv[i].error /= ""
            /\ inv[i].outcome.error \in {inv[i].error, "SNSError"}
            /\ Cardinality(AlertsBy(i, "[CRITICAL] Security Check Error")) = 1

\* Both invocations have resolved with different non-empty reports after
\* interleaved steps: invocation 2 published its metric first, invocation 1
\* sent its failure alert first.
C12_Witness ==
  /\ inv[1].outcome.state = "resolved"
  /\ inv[2].outcome.state = "resolved"
  /\ inv[1].outcome.body.checks /= <<>>
  /\ inv[2].outcome.body.checks /= <<>>
  /\ inv[1].outcome.body.checks /= inv[2].outcome.body.checks
  /\ Len(metrics) = 2
  /\ metrics[1].by = 2
  /\ Len(sns) = 2
  /\ sns[1].by = 1

====
